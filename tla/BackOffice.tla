----------------------------- MODULE BackOffice -----------------------------
(***************************************************************************)
(* The components around the conversations.  They share no variable, so    *)
(* one behaviour need not interleave them: it picks one of them, and is a  *)
(* behaviour of it while the others stay where they started.               *)
(***************************************************************************)
EXTENDS AiGateway, Catalog, ProductMedia, Configuration, InboundMessages,
        InstagramConnections, Pricing

VARIABLE part

partVars == <<gwVars, catalogVars, mediaVars, configVars, inboundVars, connectionVars,
              pricingVars>>

\* Of the configuration, one subject.
Parts == {"gateway", "catalog", "media", "inbound", "connections", "pricing"} \cup Subjects

BackOfficeInit ==
  /\ part \in Parts
  /\ GwInit /\ CatalogInit /\ MediaInit /\ ConfigInit /\ InboundInit /\ ConnectionsInit
  /\ PricingInit
  /\ part # "pricing" => listPrice = CHOOSE p \in Prices : TRUE

BackOfficeNext ==
  /\ UNCHANGED part
  /\ \/ /\ part = "gateway" /\ GwNext
        /\ UNCHANGED <<catalogVars, mediaVars, configVars, inboundVars, connectionVars,
                       pricingVars>>
     \/ /\ part = "catalog" /\ CatalogNext
        /\ UNCHANGED <<gwVars, mediaVars, configVars, inboundVars, connectionVars,
                       pricingVars>>
     \/ /\ part = "media" /\ MediaNext
        /\ UNCHANGED <<gwVars, catalogVars, configVars, inboundVars, connectionVars,
                       pricingVars>>
     \/ /\ part \in Subjects /\ ConfigNext
        /\ \A s \in Subjects \ {part} :
             status'[s] = status[s] /\ \A m \in Managers : screen'[m][s] = screen[m][s]
        /\ UNCHANGED <<gwVars, catalogVars, mediaVars, inboundVars, connectionVars,
                       pricingVars>>
     \/ /\ part = "inbound" /\ InboundNext
        /\ UNCHANGED <<gwVars, catalogVars, mediaVars, configVars, connectionVars,
                       pricingVars>>
     \/ /\ part = "connections" /\ ConnectionsNext
        /\ UNCHANGED <<gwVars, catalogVars, mediaVars, configVars, inboundVars,
                       pricingVars>>
     \/ /\ part = "pricing" /\ PricingNext
        /\ UNCHANGED <<gwVars, catalogVars, mediaVars, configVars, inboundVars,
                       connectionVars>>

BackOfficeSpec == BackOfficeInit /\ [][BackOfficeNext]_<<part, partVars>>

-----------------------------------------------------------------------------

\* The values of every component's state, the bounds of a gateway run included.
BackOfficeTypeOK ==
  /\ part \in Parts
  /\ GatewayTypeOK /\ CatalogTypeOK /\ MediaTypeOK
  /\ ConfigTypeOK /\ InboundTypeOK /\ ConnectionsTypeOK /\ PricingTypeOK
=============================================================================
