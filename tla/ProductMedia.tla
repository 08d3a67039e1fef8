---------------------------- MODULE ProductMedia ----------------------------
(***************************************************************************)
(* Images of products: apps/api/src/products/product-media.service.ts over *)
(* the database and an object store, which fail separately.                *)
(*                                                                         *)
(* An image gets its row first.  Either the server puts the object itself  *)
(* (upload), or the client puts it with a ticket and asks for completion,  *)
(* as often as it likes.  Objects are never removed.                       *)
(***************************************************************************)
CONSTANTS
  Images,    \* rows of product_media
  Callers    \* upload and completion requests in flight

VARIABLES
  media,   \* product_media.status
  object,  \* images the object store holds
  call     \* what each request has left to do: [step, image]

mediaVars == <<media, object, call>>

MediaStatus == {"absent", "pending", "ready", "failed"}

NoCall == [step |-> "idle", image |-> {}]

MediaInit ==
  /\ media = [m \in Images |-> "absent"]
  /\ object = {}
  /\ call = [c \in Callers |-> NoCall]

CallAt(c, step, m) == call[c].step = step /\ call[c].image = {m}

Then(c, step, m) == call' = [call EXCEPT ![c] = [step |-> step, image |-> {m}]]

Returns(c) == call' = [call EXCEPT ![c] = NoCall]

\* upload inserts the row, then puts the object.
BeginUpload(c, m) ==
  /\ call[c].step = "idle"
  /\ media[m] = "absent"
  /\ media' = [media EXCEPT ![m] = "pending"]
  /\ Then(c, "put", m)
  /\ UNCHANGED object

\* createUploadTicket.
GiveTicket(m) ==
  /\ media[m] = "absent"
  /\ media' = [media EXCEPT ![m] = "pending"]
  /\ UNCHANGED <<object, call>>

\* The client of a ticket puts the object, whatever became of the row.
ClientPuts(m) ==
  /\ media[m] # "absent"
  /\ object' = object \cup {m}
  /\ UNCHANGED <<media, call>>

Put(c, m) ==
  /\ CallAt(c, "put", m)
  /\ object' = object \cup {m}
  /\ Then(c, "keep", m)
  /\ UNCHANGED media

\* put throws, with or without having stored the object.
PutFails(c, m) ==
  /\ CallAt(c, "put", m)
  /\ object' \in {object, object \cup {m}}
  /\ Then(c, "fail", m)
  /\ UNCHANGED media

\* upload marks the row, or its update throws and the catch block is next.
Keep(c, m) ==
  /\ CallAt(c, "keep", m)
  /\ \/ media' = [media EXCEPT ![m] = "ready"] /\ Returns(c)
     \/ Then(c, "fail", m) /\ UNCHANGED media
  /\ UNCHANGED object

BeginComplete(c, m) ==
  /\ call[c].step = "idle"
  /\ media[m] # "absent"
  /\ Then(c, "head", m)
  /\ UNCHANGED <<media, object>>

\* head throws when there is no object, or one of another type.
LookUp_Lenient(c, m) ==
  /\ CallAt(c, "head", m)
  /\ Then(c, "mark", m)
  /\ UNCHANGED <<media, object>>

LookUp(c, m) ==
  /\ CallAt(c, "head", m)
  /\ IF m \in object THEN Then(c, "mark", m) ELSE Returns(c)
  /\ UNCHANGED <<media, object>>

Mark(c, m) ==
  /\ CallAt(c, "mark", m)
  /\ media' = [media EXCEPT ![m] = "ready"]
  /\ Returns(c)
  /\ UNCHANGED object

\* The catch block of upload; the update may fail too, and is then forgotten.
MarkFailed(c, m) ==
  /\ CallAt(c, "fail", m)
  /\ media' \in {media, [media EXCEPT ![m] = "failed"]}
  /\ Returns(c)
  /\ UNCHANGED object

\* A statement fails, or the process dies.
Crash(c) ==
  /\ call[c].step # "idle"
  /\ Returns(c)
  /\ UNCHANGED <<media, object>>

MediaNext ==
  \/ \E c \in Callers, m \in Images :
       \/ BeginUpload(c, m) \/ Put(c, m) \/ PutFails(c, m) \/ Keep(c, m)
       \/ BeginComplete(c, m) \/ LookUp(c, m) \/ Mark(c, m) \/ MarkFailed(c, m)
  \/ \E m \in Images : GiveTicket(m) \/ ClientPuts(m)
  \/ \E c \in Callers : Crash(c)

MediaSpec == MediaInit /\ [][MediaNext]_mediaVars

-----------------------------------------------------------------------------

MediaTypeOK ==
  /\ media \in [Images -> MediaStatus]
  /\ object \subseteq Images
  /\ call \in [Callers ->
       [step : {"idle", "put", "keep", "head", "mark", "fail"},
        image : {{}} \cup {{m} : m \in Images}]]

\* An image that is offered for download is in the object store, whatever part
\* of an upload failed and however often completion was asked for.
ReadyIsStored == \A m \in Images : media[m] = "ready" => m \in object
=============================================================================
