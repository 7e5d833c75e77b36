----------------------- MODULE ServerConnectionProofs -----------------------
(***************************************************************************)
(* Theorems about ServerConnection, for any number of uploads, any sizes   *)
(* and any bound on the messages under way.                                *)
(***************************************************************************)
EXTENDS ServerConnection, TLAPS

-----------------------------------------------------------------------------
(* The inductive invariant                                                 *)

UploadTypes == {"upload_start", "upload_chunk", "upload_end"}
Stages      == {"start", "write", "end", "cancel"}

\* The handler awaits something for upload u.
Handling(u, what) == running.type = what /\ running.of.id = u
HandlerOf(u) == running.type \in Stages /\ running.of.id = u

Concerns(m, u) == m.type \in UploadTypes /\ m.id = u

\* The place of a message in the sequence a client sends of a file of z chunks
Place(m, z) == IF m.type = "upload_start" THEN 0
               ELSE IF m.type = "upload_chunk" THEN m.offset + 1
               ELSE z + 1

InFile(m, z) == m.type = "upload_chunk" => m.offset < z

\* The first n chunks of a file
Whole(n) == [i \in 1..n |-> i - 1]

TypeInv ==
    /\ policy \in Policies /\ open \in BOOLEAN
    /\ messageQueue \in Seq(Messages)
    /\ \/ running = Idle
       \/ running \in [type : {"fetch"}, of : Messages]
       \/ /\ running \in [type : Stages, of : Messages]
          /\ running.of.type \in UploadTypes
          /\ running.type = "write" => running.of.type = "upload_chunk"
    /\ uploads \in [Uploads -> Nat \cup {None}]
    /\ manager \in [Uploads -> {"pending", "streaming", "cancelled", None}]
    /\ written \in [Uploads -> Nat]
    /\ file \in [Uploads -> Seq(Nat) \cup {None}]
    /\ visited \subseteq Uploads /\ cancelling \in Uploads \cup {None}
    /\ size \in [Uploads -> 0..Chunks] /\ sent \in [Uploads -> Nat]
    /\ answer \in [Uploads -> {"complete", "error", None}]
    /\ faults \subseteq Uploads

\* The messages of u that wait are those the client sent from the n-th on, in
\* the order they were sent.
Waiting(u, n) ==
    /\ n <= sent[u]
    /\ \A i, j \in 1..Len(messageQueue) :
          i < j /\ Concerns(messageQueue[i], u) /\ Concerns(messageQueue[j], u) =>
              Place(messageQueue[i], size[u]) < Place(messageQueue[j], size[u])
    /\ \A i \in 1..Len(messageQueue) :
          Concerns(messageQueue[i], u) =>
              /\ Place(messageQueue[i], size[u]) \in n..(sent[u] - 1)
              /\ InFile(messageQueue[i], size[u])
    /\ \A k \in n..(sent[u] - 1) : \E i \in 1..Len(messageQueue) :
          Concerns(messageQueue[i], u) /\ Place(messageQueue[i], size[u]) = k

NoneWaits(u) == \A i \in 1..Len(messageQueue) : ~Concerns(messageQueue[i], u)

NoStartWaits(u) ==
    sent[u] > 0 /\ \A i \in 1..Len(messageQueue) :
        Concerns(messageQueue[i], u) => messageQueue[i].type # "upload_start"

\* An upload that has no entry yet
Unstarted(u) ==
    /\ uploads[u] = None /\ manager[u] = None /\ file[u] = None /\ written[u] = 0
    /\ \/ ~HandlerOf(u) /\ Waiting(u, 0)
       \/ Handling(u, "start") /\ Waiting(u, 1)

\* An upload with as many chunks on disk as the client's next one in the queue
\* expects
Underway(u) ==
    /\ uploads[u] = written[u] /\ written[u] <= size[u]
    /\ \/ manager[u] = "pending" /\ written[u] = 0 /\ file[u] = None
       \/ manager[u] = "streaming" /\ file[u] = Whole(written[u])
    /\ \/ ~HandlerOf(u) /\ Waiting(u, written[u] + 1)
       \/ /\ Handling(u, "write") /\ running.of.offset = written[u]
          /\ written[u] < size[u] /\ manager[u] = "streaming"
          /\ Waiting(u, written[u] + 2)
       \/ /\ Handling(u, "end") /\ written[u] = size[u]
          /\ Waiting(u, size[u] + 2)

\* An upload that failed has no entry, and no file once it is cancelled.
Erred(u) ==
    /\ uploads[u] = None /\ NoStartWaits(u)
    /\ HandlerOf(u) => running.type = "cancel"
    /\ file[u] # None => Handling(u, "cancel") /\ manager[u] # None

\* While the connection is open
OpenInv(u) ==
    open =>
        /\ cancelling = None /\ visited = {}
        /\ answer[u] = None => Unstarted(u) \/ Underway(u)
        /\ answer[u] = "error" => Erred(u)

\* Of a complete upload nothing is left that could touch its file.
DoneInv(u) ==
    answer[u] = "complete" =>
        /\ uploads[u] = None /\ manager[u] = None /\ cancelling # u
        /\ ~HandlerOf(u) /\ NoneWaits(u)
        /\ file[u] = Whole(size[u])

\* The cleanup has yet to come to u.
Left(u) ==
    cancelling # None /\ uploads[u] # None /\ manager[u] # None /\ u \notin visited

\* A part of a file is removed by the cleanup or by the handler's own cancel.
Doomed(u) ==
    \/ cancelling = u \/ Left(u)
    \/ Handling(u, "cancel") /\ manager[u] # None

Kept(u) == file[u] = None \/ Len(file[u]) = size[u]

\* After the close of an SRP connection
ClosedInv(u) ==
    ~open /\ policy = "srp_required" =>
        /\ Kept(u) \/ Doomed(u)
        /\ Handling(u, "write") => file[u] = None \/ cancelling = u \/ Left(u)
        /\ Handling(u, "end") => Kept(u)

CauseInv(u) == answer[u] = "error" /\ size[u] > 0 => u \in faults

UploadInv(u) == OpenInv(u) /\ DoneInv(u) /\ ClosedInv(u) /\ CauseInv(u)

ListenersInv == ~open /\ policy = "srp_required" => subscriptions = {}

ServerInv == TypeInv /\ ListenersInv /\ \A u \in Uploads : UploadInv(u)
-----------------------------------------------------------------------------
(* The queue                                                               *)

LEMMA MessageFields ==
  ASSUME NEW m \in Messages
  PROVE  /\ m.type \in {"request", "subscribe", "unsubscribe"} \cup UploadTypes
         /\ m.type \in UploadTypes => m.id \in Uploads
         /\ m.type \in {"subscribe", "unsubscribe"} => m.id \in Subs
         /\ m.type = "upload_chunk" => m.offset \in 0..Chunks
BY DEF Messages, UploadTypes

LEMMA PlaceInNat ==
  ASSUME NEW m \in Messages, NEW u, Concerns(m, u), NEW z \in Nat
  PROVE  Place(m, z) \in Nat
BY MessageFields, ServerConnectionAssumption DEF Place, Concerns, UploadTypes

LEMMA TailOf ==
  ASSUME NEW S, NEW q \in Seq(S), q # <<>>
  PROVE  /\ Tail(q) \in Seq(S) /\ Len(Tail(q)) = Len(q) - 1 /\ Len(q) \in Nat \ {0}
         /\ Head(q) = q[1] /\ q[1] \in S
         /\ \A i \in 1..Len(Tail(q)) : i + 1 \in 1..Len(q) /\ Tail(q)[i] = q[i + 1]
OBVIOUS

\* The first message is taken: nobody else's messages are disturbed.
LEMMA TakeOther ==
  ASSUME TypeInv, Takes, UNCHANGED <<size, sent>>, NEW u \in Uploads
  PROVE  /\ NoneWaits(u) => NoneWaits(u)'
         /\ NoStartWaits(u) => NoStartWaits(u)'
         /\ ~Concerns(First, u) => \A n \in Nat : Waiting(u, n) => Waiting(u, n)'
<1>1. messageQueue \in Seq(Messages) /\ messageQueue # <<>> /\ messageQueue' = Tail(messageQueue)
  BY DEF TypeInv, Takes
<1>2. /\ Len(messageQueue') = Len(messageQueue) - 1 /\ Len(messageQueue) \in Nat \ {0}
      /\ \A i \in 1..Len(messageQueue') :
            i + 1 \in 1..Len(messageQueue) /\ messageQueue'[i] = messageQueue[i + 1]
      /\ First = messageQueue[1]
  BY <1>1, TailOf DEF First
<1>3. NoneWaits(u) => NoneWaits(u)'
  BY <1>2 DEF NoneWaits
<1>4. NoStartWaits(u) => NoStartWaits(u)'
  BY <1>2 DEF NoStartWaits
<1>5. ASSUME ~Concerns(First, u), NEW n \in Nat, Waiting(u, n) PROVE Waiting(u, n)'
  <2>1. sent[u] \in Nat
    BY DEF TypeInv
  <2>2. ASSUME NEW k \in n..(sent[u] - 1)
        PROVE  \E i \in 1..Len(messageQueue') :
                  Concerns(messageQueue'[i], u) /\ Place(messageQueue'[i], size[u]) = k
    <3>1. PICK i \in 1..Len(messageQueue) :
                  Concerns(messageQueue[i], u) /\ Place(messageQueue[i], size[u]) = k
      BY <1>5 DEF Waiting
    <3>2. i # 1
      BY <1>2, <1>5, <3>1
    <3>3. i - 1 \in 1..Len(messageQueue')
      BY <1>2, <3>2
    <3>4. messageQueue'[i - 1] = messageQueue[i]
      BY <1>2, <3>2, <3>3
    <3> QED
      BY <3>1, <3>3, <3>4
  <2>3. \A i, j \in 1..Len(messageQueue') :
           i < j /\ Concerns(messageQueue'[i], u) /\ Concerns(messageQueue'[j], u) =>
               Place(messageQueue'[i], size[u]) < Place(messageQueue'[j], size[u])
    <3> TAKE i, j \in 1..Len(messageQueue')
    <3>1. /\ i + 1 \in 1..Len(messageQueue) /\ messageQueue'[i] = messageQueue[i + 1]
          /\ j + 1 \in 1..Len(messageQueue) /\ messageQueue'[j] = messageQueue[j + 1]
          /\ i < j => i + 1 < j + 1
      BY <1>2
    <3> QED
      BY <1>5, <3>1 DEF Waiting
  <2>4. \A i \in 1..Len(messageQueue') : Concerns(messageQueue'[i], u) =>
           /\ Place(messageQueue'[i], size[u]) \in n..(sent[u] - 1)
           /\ InFile(messageQueue'[i], size[u])
    BY <1>2, <1>5 DEF Waiting
  <2>5. n <= sent[u]
    BY <1>5 DEF Waiting
  <2> QED
    BY <2>1, <2>2, <2>3, <2>4, <2>5 DEF Waiting
<1> QED
  BY <1>3, <1>4, <1>5

\* The first message of an upload that is taken is the one that is due.
LEMMA TakeDue ==
  ASSUME TypeInv, Takes, UNCHANGED <<size, sent>>, NEW u \in Uploads, Concerns(First, u),
         NEW n \in Nat, Waiting(u, n)
  PROVE  /\ Place(First, size[u]) = n /\ InFile(First, size[u])
         /\ n < sent[u] /\ Waiting(u, n + 1)'
<1>1. messageQueue \in Seq(Messages) /\ messageQueue # <<>> /\ messageQueue' = Tail(messageQueue)
  BY DEF TypeInv, Takes
<1>2. /\ Len(messageQueue') = Len(messageQueue) - 1 /\ Len(messageQueue) \in Nat \ {0}
      /\ \A i \in 1..Len(messageQueue') :
            i + 1 \in 1..Len(messageQueue) /\ messageQueue'[i] = messageQueue[i + 1]
      /\ First = messageQueue[1]
  BY <1>1, TailOf DEF First
<1>3. sent[u] \in Nat
  BY DEF TypeInv
<1>4. Place(First, size[u]) \in n..(sent[u] - 1) /\ InFile(First, size[u])
  BY <1>2 DEF Waiting
<1>5. PICK i \in 1..Len(messageQueue) :
              Concerns(messageQueue[i], u) /\ Place(messageQueue[i], size[u]) = n
  BY <1>3, <1>4 DEF Waiting
<1>6. \A j \in 1..Len(messageQueue) : j # 1 /\ Concerns(messageQueue[j], u) =>
          Place(First, size[u]) < Place(messageQueue[j], size[u])
  BY <1>2 DEF Waiting
<1>7. Place(First, size[u]) = n
  BY <1>2, <1>3, <1>4, <1>5, <1>6
<1>8. \A j \in 1..Len(messageQueue') : Concerns(messageQueue'[j], u) =>
          /\ Place(messageQueue'[j], size[u]) \in (n + 1)..(sent[u] - 1)
          /\ InFile(messageQueue'[j], size[u])
  <2> TAKE j \in 1..Len(messageQueue')
  <2> HAVE Concerns(messageQueue'[j], u)
  <2>1. j + 1 \in 1..Len(messageQueue) /\ j + 1 # 1 /\ messageQueue'[j] = messageQueue[j + 1]
    BY <1>2
  <2>2. Place(messageQueue[j + 1], size[u]) \in n..(sent[u] - 1)
        /\ InFile(messageQueue[j + 1], size[u])
    BY <2>1 DEF Waiting
  <2>3. n < Place(messageQueue[j + 1], size[u])
    BY <1>6, <1>7, <2>1
  <2> QED
    BY <1>3, <2>1, <2>2, <2>3
<1>9. ASSUME NEW k \in (n + 1)..(sent[u] - 1)
      PROVE  \E j \in 1..Len(messageQueue') :
                Concerns(messageQueue'[j], u) /\ Place(messageQueue'[j], size[u]) = k
  <2>1. k \in n..(sent[u] - 1) /\ k # n
    BY <1>3
  <2>2. PICK j \in 1..Len(messageQueue) :
                Concerns(messageQueue[j], u) /\ Place(messageQueue[j], size[u]) = k
    BY <2>1 DEF Waiting
  <2>3. j # 1
    BY <1>2, <1>7, <2>1, <2>2
  <2>4. j - 1 \in 1..Len(messageQueue') /\ messageQueue'[j - 1] = messageQueue[j]
    BY <1>2, <2>3
  <2> QED
    BY <2>2, <2>4
<1>10. n + 1 <= sent[u]
  BY <1>3, <1>4
<1>11. \A i1, j1 \in 1..Len(messageQueue') :
          i1 < j1 /\ Concerns(messageQueue'[i1], u) /\ Concerns(messageQueue'[j1], u) =>
              Place(messageQueue'[i1], size[u]) < Place(messageQueue'[j1], size[u])
  <2> TAKE i1, j1 \in 1..Len(messageQueue')
  <2>1. /\ i1 + 1 \in 1..Len(messageQueue) /\ messageQueue'[i1] = messageQueue[i1 + 1]
        /\ j1 + 1 \in 1..Len(messageQueue) /\ messageQueue'[j1] = messageQueue[j1 + 1]
        /\ i1 < j1 => i1 + 1 < j1 + 1
    BY <1>2
  <2> QED
    BY <2>1 DEF Waiting
<1> QED
  BY <1>3, <1>4, <1>7, <1>8, <1>9, <1>10, <1>11 DEF Waiting

\* A message that is sent is the next of its upload, or concerns no upload.
LEMMA SendKeepsQueue ==
  ASSUME TypeInv, NEW m \in Messages, NEW u \in Uploads,
         messageQueue' = Append(messageQueue, m), size' = size,
         \/ ~Concerns(m, u) /\ sent'[u] = sent[u]
         \/ /\ Concerns(m, u) /\ sent'[u] = sent[u] + 1
            /\ Place(m, size[u]) = sent[u] /\ InFile(m, size[u])
  PROVE  /\ \A n \in Nat : Waiting(u, n) => Waiting(u, n)'
         /\ ~Concerns(m, u) => (NoneWaits(u) => NoneWaits(u)')
         /\ m.type # "upload_start" \/ ~Concerns(m, u) => (NoStartWaits(u) => NoStartWaits(u)')
<1>1. messageQueue \in Seq(Messages) /\ sent[u] \in Nat
  BY DEF TypeInv
<1>2. /\ Len(messageQueue') = Len(messageQueue) + 1 /\ Len(messageQueue) \in Nat
      /\ \A i \in 1..Len(messageQueue) : messageQueue'[i] = messageQueue[i]
      /\ messageQueue'[Len(messageQueue) + 1] = m
      /\ \A i \in 1..Len(messageQueue') : i \in 1..Len(messageQueue) \/ i = Len(messageQueue) + 1
      /\ \A i \in 1..Len(messageQueue) : i \in 1..Len(messageQueue')
  BY <1>1
<1>3. ~Concerns(m, u) => (NoneWaits(u) => NoneWaits(u)')
  BY <1>2 DEF NoneWaits
<1>4. m.type # "upload_start" \/ ~Concerns(m, u) => (NoStartWaits(u) => NoStartWaits(u)')
  BY <1>1, <1>2 DEF NoStartWaits
<1>5. ASSUME NEW n \in Nat, Waiting(u, n) PROVE Waiting(u, n)'
  <2>1. n <= sent'[u]
    BY <1>1, <1>5 DEF Waiting
  <2>2. ASSUME NEW i \in 1..Len(messageQueue'), Concerns(messageQueue'[i], u)
        PROVE  /\ Place(messageQueue'[i], size[u]) \in n..(sent'[u] - 1)
               /\ InFile(messageQueue'[i], size[u])
    <3>1. CASE i \in 1..Len(messageQueue)
      BY <1>1, <1>2, <1>5, <2>2, <3>1 DEF Waiting
    <3>2. CASE i = Len(messageQueue) + 1
      BY <1>1, <1>2, <1>5, <2>2, <3>2 DEF Waiting
    <3> QED
      BY <1>2, <3>1, <3>2
  <2>3. ASSUME NEW i \in 1..Len(messageQueue'), NEW j \in 1..Len(messageQueue'), i < j,
               Concerns(messageQueue'[i], u), Concerns(messageQueue'[j], u)
        PROVE  Place(messageQueue'[i], size[u]) < Place(messageQueue'[j], size[u])
    <3>1. i \in 1..Len(messageQueue)
      BY <1>2, <2>3
    <3>2. CASE j \in 1..Len(messageQueue)
      BY <1>2, <1>5, <2>3, <3>1, <3>2 DEF Waiting
    <3>3. CASE j = Len(messageQueue) + 1
      BY <1>1, <1>2, <1>5, <2>3, <3>1, <3>3 DEF Waiting
    <3> QED
      BY <1>2, <3>2, <3>3
  <2>4. ASSUME NEW k \in n..(sent'[u] - 1)
        PROVE  \E i \in 1..Len(messageQueue') :
                  Concerns(messageQueue'[i], u) /\ Place(messageQueue'[i], size[u]) = k
    <3>1. CASE k \in n..(sent[u] - 1)
      BY <1>2, <1>5, <3>1 DEF Waiting
    <3>2. CASE k \notin n..(sent[u] - 1)
      <4>1. k = sent[u] /\ Concerns(m, u) /\ Place(m, size[u]) = k
        BY <1>1, <3>2
      <4> QED
        BY <1>2, <4>1
    <3> QED
      BY <3>1, <3>2
  <2> QED
    BY <2>1, <2>2, <2>3, <2>4 DEF Waiting
<1> QED
  BY <1>3, <1>4, <1>5

-----------------------------------------------------------------------------
(* Steps that leave an upload alone                                        *)

\* Nothing of upload u changes, and its messages keep their order.
Untouched(u) ==
    /\ UNCHANGED <<policy, open, closeVars, size>>
    /\ uploads'[u] = uploads[u] /\ manager'[u] = manager[u] /\ written'[u] = written[u]
    /\ file'[u] = file[u] /\ answer'[u] = answer[u]
    /\ u \in faults => u \in faults'
    /\ HandlerOf(u) \/ HandlerOf(u)' => running' = running
    /\ \A n \in Nat : Waiting(u, n) => Waiting(u, n)'
    /\ NoneWaits(u) => NoneWaits(u)'
    /\ NoStartWaits(u) => NoStartWaits(u)'

LEMMA UntouchedKept ==
  ASSUME TypeInv, NEW u \in Uploads, UploadInv(u), Untouched(u)
  PROVE  UploadInv(u)'
<1>1. /\ \A what \in Stages : Handling(u, what)' <=> Handling(u, what)
      /\ HandlerOf(u)' <=> HandlerOf(u)
      /\ HandlerOf(u) => running' = running
  BY DEF Untouched, Handling, HandlerOf
<1>2. written[u] \in Nat /\ size[u] \in Nat
  BY ServerConnectionAssumption DEF TypeInv
<1>3. Unstarted(u) => Unstarted(u)'
  BY <1>1 DEF Unstarted, Untouched, Stages
<1>4. Underway(u) => Underway(u)'
  <2>1. \A n \in {written[u] + 1, written[u] + 2, size[u] + 2} : Waiting(u, n) => Waiting(u, n)'
    BY <1>2 DEF Untouched
  <2>2. Handling(u, "write") => HandlerOf(u)
    BY DEF Handling, HandlerOf, Stages
  <2> QED
    BY <1>1, <2>1, <2>2 DEF Underway, Untouched, Stages
<1>5. Erred(u) => Erred(u)'
  BY <1>1 DEF Erred, Untouched, Stages
<1>6. OpenInv(u)'
  BY <1>3, <1>4, <1>5 DEF UploadInv, OpenInv, Untouched, closeVars
<1>7. DoneInv(u)'
  BY <1>1 DEF UploadInv, DoneInv, Untouched, closeVars
<1>8. ClosedInv(u)'
  BY <1>1 DEF UploadInv, ClosedInv, Untouched, closeVars, Kept, Doomed, Left, Stages
<1>9. CauseInv(u)'
  BY DEF UploadInv, CauseInv, Untouched
<1> QED
  BY <1>6, <1>7, <1>8, <1>9 DEF UploadInv

\* A message that cannot be read any more
LEMMA DropKeeps ==
  ASSUME TypeInv, DropUnreadable, NEW u \in Uploads, UploadInv(u)
  PROVE  UploadInv(u)'
<1>1. ~open /\ policy = "srp_required" /\ policy \in Policies
  BY DEF DropUnreadable, Readable, TypeInv
<1>2. /\ UNCHANGED <<policy, open, running, uploadVars, closeVars, clientVars>> /\ Takes
  BY DEF DropUnreadable
<1>3. NoneWaits(u) => NoneWaits(u)'
  BY <1>2, TakeOther DEF clientVars
<1>4. OpenInv(u)'
  BY <1>1, <1>2 DEF OpenInv
<1>5. DoneInv(u)'
  BY <1>2, <1>3 DEF UploadInv, DoneInv, uploadVars, closeVars, clientVars, HandlerOf
<1>6. ClosedInv(u)' /\ CauseInv(u)'
  BY <1>2 DEF UploadInv, ClosedInv, CauseInv, uploadVars, closeVars, clientVars, Handling,
              Kept, Doomed, Left
<1> QED
  BY <1>4, <1>5, <1>6 DEF UploadInv

-----------------------------------------------------------------------------
(* Types                                                                   *)

LEMMA TypeInit == Init => TypeInv
BY ServerConnectionAssumption DEF Init, TypeInv

LEMMA FirstIsMessage ==
  ASSUME TypeInv, Takes
  PROVE  First \in Messages /\ messageQueue' \in Seq(Messages)
BY TailOf DEF TypeInv, Takes, First

LEMMA TellsTyped ==
  ASSUME TypeInv, NEW u \in Uploads, NEW what \in {"complete", "error"}, Tells(u, what)
  PROVE  answer' \in [Uploads -> {"complete", "error", None}]
BY DEF Tells, TypeInv

LEMMA FailedTyped ==
  ASSUME TypeInv, NEW u \in Uploads, Failed(u)
  PROVE  /\ uploads' \in [Uploads -> Nat \cup {None}]
         /\ manager' \in [Uploads -> {"pending", "streaming", "cancelled", None}]
BY DEF Failed, StatusAfterCancel, TypeInv

LEMMA CleansUpTyped ==
  ASSUME TypeInv, NEW seen \in SUBSET Uploads,
         NEW status \in [Uploads -> {"pending", "streaming", "cancelled", None}],
         CleansUp(seen, status)
  PROVE  /\ uploads' \in [Uploads -> Nat \cup {None}]
         /\ manager' \in [Uploads -> {"pending", "streaming", "cancelled", None}]
         /\ visited' \subseteq Uploads /\ cancelling' \in Uploads \cup {None}
BY DEF CleansUp, TypeInv

LEMMA TakingTyped ==
  ASSUME TypeInv,
         \/ DropUnreadable \/ HandleRequest \/ HandleSubscribe \/ HandleUnsubscribe
         \/ HandleUploadStart \/ HandleUploadChunk \/ HandleUploadEnd
  PROVE  TypeInv'
<1>1. First \in Messages /\ messageQueue' \in Seq(Messages)
  BY FirstIsMessage DEF DropUnreadable, HandleRequest, HandleSubscribe, HandleUnsubscribe,
                        HandleUploadStart, HandleUploadChunk, HandleUploadEnd
<1>2. First.type \in UploadTypes => First.id \in Uploads
  BY <1>1, MessageFields
<1>3. CASE DropUnreadable \/ HandleRequest \/ HandleSubscribe \/ HandleUnsubscribe
  BY <1>1, <1>3 DEF DropUnreadable, HandleRequest, HandleSubscribe, HandleUnsubscribe, Awaits,
                    TypeInv, uploadVars, closeVars, clientVars
<1>4. ASSUME NEW what \in {"start", "write", "end", "cancel"}, Awaits(First, what),
             First.type \in UploadTypes, what = "write" => First.type = "upload_chunk"
      PROVE  /\ running' \in [type : Stages, of : Messages]
             /\ running'.of.type \in UploadTypes
             /\ running'.type = "write" => running'.of.type = "upload_chunk"
  BY <1>1, <1>4 DEF Awaits, Stages
<1>5. CASE HandleUploadStart
  <2>1. First.id \in Uploads /\ First.type \in UploadTypes
    BY <1>2, <1>5 DEF HandleUploadStart, UploadTypes
  <2>2. answer' \in [Uploads -> {"complete", "error", None}]
    BY <1>5, <2>1, TellsTyped DEF HandleUploadStart, clientVars, TypeInv
  <2>3. UNCHANGED <<policy, open, uploadVars, closeVars, size, sent, faults>>
    BY <1>5 DEF HandleUploadStart, clientVars
  <2>4. running' = running \/ Awaits(First, "start")
    BY <1>5 DEF HandleUploadStart
  <2> QED
    BY <1>1, <1>4, <2>1, <2>2, <2>3, <2>4 DEF TypeInv, uploadVars, closeVars
<1>6. CASE HandleUploadChunk
  <2> DEFINE u == First.id
  <2>1. u \in Uploads /\ First.type = "upload_chunk" /\ First.type \in UploadTypes
    BY <1>2, <1>6 DEF HandleUploadChunk, UploadTypes
  <2>2. answer' \in [Uploads -> {"complete", "error", None}]
    BY <1>6, <2>1, TellsTyped DEF HandleUploadChunk, TypeInv
  <2>3. UNCHANGED <<policy, open, written, closeVars, size, sent, faults>>
    BY <1>6 DEF HandleUploadChunk
  <2>4. running' = running \/ Awaits(First, "cancel") \/ Awaits(First, "write")
    BY <1>6 DEF HandleUploadChunk
  <2>5. /\ uploads' \in [Uploads -> Nat \cup {None}]
        /\ manager' \in [Uploads -> {"pending", "streaming", "cancelled", None}]
        /\ file' \in [Uploads -> Seq(Nat) \cup {None}]
    <3>1. CASE UNCHANGED <<uploads, manager, file>>
      BY <3>1 DEF TypeInv
    <3>2. CASE Failed(u) /\ UNCHANGED file
      BY <2>1, <3>2, FailedTyped DEF TypeInv
    <3>3. CASE /\ manager' = [manager EXCEPT ![u] = "streaming"]
               /\ file' = [file EXCEPT ![u] = IF @ = None THEN <<>> ELSE @]
               /\ UNCHANGED uploads
      BY <2>1, <3>3 DEF TypeInv
    <3> QED
      BY <1>6, <3>1, <3>2, <3>3 DEF HandleUploadChunk
  <2> QED
    BY <1>1, <1>4, <2>1, <2>2, <2>3, <2>4, <2>5 DEF TypeInv, closeVars
<1>7. CASE HandleUploadEnd
  <2> DEFINE u == First.id
  <2>1. u \in Uploads /\ First.type = "upload_end" /\ First.type \in UploadTypes
    BY <1>2, <1>7 DEF HandleUploadEnd, UploadTypes
  <2>2. answer' \in [Uploads -> {"complete", "error", None}]
    BY <1>7, <2>1, TellsTyped DEF HandleUploadEnd, TypeInv
  <2>3. UNCHANGED <<policy, open, written, file, closeVars, size, sent, faults>>
    BY <1>7 DEF HandleUploadEnd
  <2>4. running' = running \/ Awaits(First, "cancel") \/ Awaits(First, "end")
    BY <1>7 DEF HandleUploadEnd
  <2>5. /\ uploads' \in [Uploads -> Nat \cup {None}]
        /\ manager' \in [Uploads -> {"pending", "streaming", "cancelled", None}]
    <3>1. CASE UNCHANGED <<uploads, manager>>
      BY <3>1 DEF TypeInv
    <3>2. CASE Failed(u)
      BY <2>1, <3>2, FailedTyped
    <3> QED
      BY <1>7, <3>1, <3>2 DEF HandleUploadEnd
  <2> QED
    BY <1>1, <1>4, <2>1, <2>2, <2>3, <2>4, <2>5 DEF TypeInv, closeVars
<1> QED
  BY <1>3, <1>5, <1>6, <1>7

LEMMA AwaitedTyped ==
  ASSUME TypeInv, NEW u \in Uploads,
         \/ UploadStarted(u) \/ ChunkWritten(u) \/ WriteFails(u) \/ CancelDone(u)
         \/ UploadEnded(u) \/ EndFails(u)
  PROVE  TypeInv'
<1>1. ASSUME running.type \in Stages, running' = [running EXCEPT !.type = "cancel"]
      PROVE  /\ running' \in [type : Stages, of : Messages]
             /\ running'.of.type \in UploadTypes /\ running'.type # "write"
  BY <1>1 DEF TypeInv, Stages, Idle
<1>2. CASE UploadStarted(u)
  <2>1. answer' \in [Uploads -> {"complete", "error", None}]
    BY <1>2, TellsTyped DEF UploadStarted, TypeInv
  <2>2. /\ uploads' \in [Uploads -> Nat \cup {None}]
        /\ manager' \in [Uploads -> {"pending", "streaming", "cancelled", None}]
        /\ faults' \subseteq Uploads
    <3>1. CASE uploads' = [uploads EXCEPT ![u] = 0]
               /\ manager' = [manager EXCEPT ![u] = "pending"] /\ faults' = faults
      BY <3>1 DEF TypeInv
    <3>2. CASE UNCHANGED <<uploads, manager>> /\ faults' = faults \cup {u}
      BY <3>2 DEF TypeInv
    <3> QED
      BY <1>2, <3>1, <3>2 DEF UploadStarted
  <2>3. /\ running' = Idle
        /\ UNCHANGED <<policy, open, messageQueue, written, file, closeVars, size, sent>>
    BY <1>2 DEF UploadStarted, Returns
  <2> QED
    BY <2>1, <2>2, <2>3 DEF TypeInv, closeVars
<1>3. CASE ChunkWritten(u)
  <2>1. running.type = "write" /\ running.of \in Messages /\ running.of.type = "upload_chunk"
    BY <1>3 DEF ChunkWritten, TypeInv, Idle
  <2>2. running.of.offset \in Nat
    BY <2>1, MessageFields, ServerConnectionAssumption
  <2>3. CountAfter(u) \in Nat
    BY DEF CountAfter, TypeInv
  <2>4. file' \in [Uploads -> Seq(Nat) \cup {None}]
    BY <1>3, <2>2 DEF ChunkWritten, TypeInv
  <2> QED
    BY <1>3, <2>3, <2>4 DEF ChunkWritten, Returns, TypeInv, closeVars, clientVars
<1>4. CASE WriteFails(u) \/ EndFails(u)
  <2>1. answer' \in [Uploads -> {"complete", "error", None}]
    BY <1>4, TellsTyped DEF WriteFails, EndFails
  <2>2. /\ uploads' \in [Uploads -> Nat \cup {None}]
        /\ manager' \in [Uploads -> {"pending", "streaming", "cancelled", None}]
    BY <1>4, FailedTyped DEF WriteFails, EndFails
  <2>3. running.type \in Stages /\ running' = [running EXCEPT !.type = "cancel"]
    BY <1>4 DEF WriteFails, EndFails, Stages
  <2> QED
    BY <1>1, <1>4, <2>1, <2>2, <2>3 DEF WriteFails, EndFails, TypeInv, closeVars
<1>5. CASE CancelDone(u)
  BY <1>5 DEF CancelDone, Returns, TypeInv, closeVars, clientVars
<1>6. CASE UploadEnded(u)
  <2>1. answer' \in [Uploads -> {"complete", "error", None}]
    BY <1>6, TellsTyped DEF UploadEnded
  <2>2. /\ uploads' \in [Uploads -> Nat \cup {None}]
        /\ manager' \in [Uploads -> {"pending", "streaming", "cancelled", None}]
    BY <1>6, FailedTyped DEF UploadEnded, DropEntries, TypeInv
  <2>3. running.type \in Stages
        /\ (running' = Idle \/ running' = [running EXCEPT !.type = "cancel"])
    BY <1>6 DEF UploadEnded, Returns, Stages
  <2> QED
    BY <1>1, <1>6, <2>1, <2>2, <2>3 DEF UploadEnded, TypeInv, closeVars
<1> QED
  BY <1>2, <1>3, <1>4, <1>5, <1>6

LEMMA SentTyped ==
  ASSUME TypeInv, NEW m \in Messages, Sends(m)
  PROVE  messageQueue' \in Seq(Messages)
BY DEF Sends, TypeInv

LEMMA ClientTyped ==
  ASSUME TypeInv, ClientSends \/ \E u \in Uploads : ClientUploads(u)
  PROVE  TypeInv'
<1>1. CASE ClientSends
  BY <1>1, SentTyped DEF ClientSends, Sends, TypeInv, uploadVars, closeVars
<1>2. ASSUME NEW u \in Uploads, ClientUploads(u) PROVE TypeInv'
  <2>1. PICK m \in Messages : Sends(m)
    <3>1. sent[u] \in 1..size[u] => sent[u] - 1 \in 0..Chunks
      BY ServerConnectionAssumption DEF TypeInv
    <3> QED
      BY <1>2, <3>1 DEF ClientUploads, Messages
  <2>2. sent' \in [Uploads -> Nat]
    BY <1>2 DEF ClientUploads, TypeInv
  <2> QED
    BY <2>1, <2>2, SentTyped DEF Sends, TypeInv, uploadVars, closeVars
<1> QED
  BY <1>1, <1>2

LEMMA TypeStep == TypeInv /\ [Next]_vars => TypeInv'
<1> SUFFICES ASSUME TypeInv, [Next]_vars PROVE TypeInv'
  OBVIOUS
<1>1. CASE RequestDone
  BY <1>1 DEF RequestDone, Returns, TypeInv, uploadVars, closeVars, clientVars
<1>2. CASE Close
  <2>1. {} \in SUBSET Uploads /\ manager \in [Uploads -> {"pending", "streaming", "cancelled", None}]
    BY DEF TypeInv
  <2>2. CleansUp({}, manager)
    BY <1>2 DEF Close
  <2> QED
    BY <1>2, <2>1, <2>2, CleansUpTyped DEF Close, TypeInv, clientVars
<1>3. CASE CleanupStep
  <2> DEFINE status == [manager EXCEPT ![cancelling] = None]
  <2>1. visited \in SUBSET Uploads
        /\ status \in [Uploads -> {"pending", "streaming", "cancelled", None}]
    BY DEF TypeInv
  <2>2. CleansUp(visited, status)
    BY <1>3 DEF CleanupStep
  <2> HIDE DEF status
  <2>3. file' \in [Uploads -> Seq(Nat) \cup {None}]
    BY <1>3 DEF CleanupStep, TypeInv
  <2> QED
    BY <1>3, <2>1, <2>2, <2>3, CleansUpTyped DEF CleanupStep, TypeInv, connVars, clientVars
<1>4. CASE UNCHANGED vars
  BY <1>4 DEF vars, connVars, uploadVars, closeVars, clientVars, TypeInv
<1> QED
  BY <1>1, <1>2, <1>3, <1>4, TakingTyped, AwaitedTyped, ClientTyped DEF Next, HandlerStep

-----------------------------------------------------------------------------
(* The handler takes a message                                             *)

LEMMA NoHandler ==
  ASSUME running' = Idle \/ running'.type = "fetch", NEW u
  PROVE  ~HandlerOf(u)' /\ \A what \in Stages : ~Handling(u, what)'
BY DEF HandlerOf, Handling, Idle, Stages

LEMMA TakesIdle ==
  ASSUME Takes, NEW u
  PROVE  running = Idle /\ ~HandlerOf(u) /\ \A what \in Stages : ~Handling(u, what)
BY DEF Takes, HandlerOf, Handling, Idle, Stages

\* Messages that concern no upload, and an answer of the application
LEMMA OthersUntouched ==
  ASSUME TypeInv, NEW u \in Uploads,
         \/ HandleRequest \/ RequestDone \/ HandleSubscribe \/ HandleUnsubscribe \/ ClientSends
  PROVE  Untouched(u)
<1> USE DEF Untouched
<1>1. CASE HandleRequest \/ HandleSubscribe \/ HandleUnsubscribe
  <2>1. Takes /\ ~Concerns(First, u)
    BY <1>1 DEF HandleRequest, HandleSubscribe, HandleUnsubscribe, Concerns, UploadTypes
  <2>2. UNCHANGED <<policy, open, uploadVars, closeVars, clientVars>>
    BY <1>1 DEF HandleRequest, HandleSubscribe, HandleUnsubscribe
  <2>3. ~HandlerOf(u) /\ (running' = running \/ ~HandlerOf(u)')
    BY <1>1, <2>1, TakesIdle, NoHandler
    DEF HandleRequest, HandleSubscribe, HandleUnsubscribe, Awaits
  <2>4. HandlerOf(u) \/ HandlerOf(u)' => running' = running
    BY <2>3
  <2> QED
    BY <2>1, <2>2, <2>4, TakeOther DEF uploadVars, clientVars
<1>2. CASE RequestDone
  <2>1. ~HandlerOf(u) /\ ~HandlerOf(u)'
    BY <1>2, NoHandler DEF RequestDone, Returns, HandlerOf, Stages
  <2>2. UNCHANGED <<policy, open, messageQueue, uploadVars, closeVars, clientVars>>
    BY <1>2 DEF RequestDone
  <2> QED
    BY <2>1, <2>2 DEF uploadVars, clientVars, Waiting, NoneWaits, NoStartWaits
<1>3. CASE ClientSends
  <2>1. PICK m \in Messages : ~Concerns(m, u) /\ Sends(m) /\ UNCHANGED sent
    BY <1>3 DEF ClientSends, Concerns, UploadTypes
  <2>2. messageQueue' = Append(messageQueue, m) /\ size' = size /\ sent'[u] = sent[u]
    BY <2>1 DEF Sends
  <2> QED
    BY <2>1, <2>2, SendKeepsQueue DEF Sends, uploadVars
<1> QED
  BY <1>1, <1>2, <1>3

\* A message of another upload is taken.
LEMMA ElsewhereUntouched ==
  ASSUME TypeInv, HandleUploadStart \/ HandleUploadChunk \/ HandleUploadEnd,
         NEW u \in Uploads, First.id # u
  PROVE  Untouched(u)
<1>1. Takes /\ ~Concerns(First, u) /\ UNCHANGED <<size, sent>> /\ First.id \in Uploads
  <2>1. Takes /\ First.type \in UploadTypes /\ UNCHANGED <<size, sent>>
    BY DEF HandleUploadStart, HandleUploadChunk, HandleUploadEnd, UploadTypes, clientVars
  <2> QED
    BY <2>1, FirstIsMessage, MessageFields DEF Concerns
<1>2. ~HandlerOf(u) /\ ~HandlerOf(u)'
  <2>1. running' = running \/ running'.of.id = First.id
    BY DEF HandleUploadStart, HandleUploadChunk, HandleUploadEnd, Awaits
  <2> QED
    BY <1>1, <2>1, TakesIdle DEF HandlerOf, Idle, Stages
<1>3. /\ UNCHANGED <<policy, open, closeVars, size>> /\ faults' = faults
      /\ written'[u] = written[u]
  BY DEF HandleUploadStart, HandleUploadChunk, HandleUploadEnd, uploadVars, clientVars
<1>4. answer'[u] = answer[u]
  BY <1>1 DEF HandleUploadStart, HandleUploadChunk, HandleUploadEnd, clientVars, Tells, TypeInv
<1>5. uploads'[u] = uploads[u] /\ manager'[u] = manager[u] /\ file'[u] = file[u]
  <2>1. CASE HandleUploadStart
    BY <2>1 DEF HandleUploadStart, uploadVars
  <2>2. CASE HandleUploadChunk
    BY <1>1, <2>2 DEF HandleUploadChunk, Failed, TypeInv
  <2>3. CASE HandleUploadEnd
    BY <1>1, <2>3 DEF HandleUploadEnd, Failed, TypeInv
  <2> QED
    BY <2>1, <2>2, <2>3
<1> QED
  BY <1>1, <1>2, <1>3, <1>4, <1>5, TakeOther DEF Untouched

\* What is known of an upload when a message of it is taken
LEMMA TakenFacts ==
  ASSUME TypeInv, NEW u \in Uploads, UploadInv(u), Takes, Readable, Concerns(First, u),
         UNCHANGED <<size, sent>>
  PROVE  /\ answer[u] # "complete"
         /\ ~open => policy # "srp_required"
         /\ open /\ answer[u] = None /\ uploads[u] = None =>
               /\ Unstarted(u) /\ First.type = "upload_start" /\ Waiting(u, 1)'
         /\ open /\ answer[u] = None /\ uploads[u] # None =>
               /\ Underway(u) /\ Place(First, size[u]) = written[u] + 1
               /\ InFile(First, size[u])
               /\ \A n \in Nat : n = written[u] + 2 => Waiting(u, n)'
         /\ open /\ answer[u] = "error" =>
               /\ Erred(u) /\ First.type # "upload_start" /\ NoStartWaits(u)'
<1>1. ~HandlerOf(u) /\ \A what \in Stages : ~Handling(u, what)
  BY TakesIdle
<1>2. /\ Len(messageQueue) \in Nat \ {0} /\ First = messageQueue[1] /\ First \in Messages
  BY TailOf, FirstIsMessage DEF First, TypeInv, Takes
<1>3. answer[u] # "complete"
  BY <1>2 DEF UploadInv, DoneInv, NoneWaits
<1>4. ~open => policy # "srp_required"
  BY DEF Readable
<1>5. written[u] \in Nat /\ None \notin Nat
  BY ServerConnectionAssumption DEF TypeInv
<1>6. ASSUME open, answer[u] = None, uploads[u] = None
      PROVE  Unstarted(u) /\ First.type = "upload_start" /\ Waiting(u, 1)'
  <2>1. Unstarted(u) /\ Waiting(u, 0)
    BY <1>1, <1>5, <1>6 DEF UploadInv, OpenInv, Unstarted, Underway, Stages
  <2>2. Place(First, size[u]) = 0 /\ Waiting(u, 0 + 1)'
    BY <2>1, TakeDue
  <2>3. size[u] \in Nat
    BY ServerConnectionAssumption DEF TypeInv
  <2>4. First.type = "upload_start"
    BY <1>2, <2>2, <2>3, MessageFields DEF Place
  <2> QED
    BY <2>1, <2>2, <2>4
<1>7. ASSUME open, answer[u] = None, uploads[u] # None
      PROVE  /\ Underway(u) /\ Place(First, size[u]) = written[u] + 1
             /\ InFile(First, size[u])
             /\ \A n \in Nat : n = written[u] + 2 => Waiting(u, n)'
  <2>1. Underway(u) /\ Waiting(u, written[u] + 1)
    BY <1>1, <1>7 DEF UploadInv, OpenInv, Unstarted, Underway, Stages
  <2>2. PICK d \in Nat : d = written[u] + 1
    BY <1>5
  <2>3. /\ Place(First, size[u]) = d /\ InFile(First, size[u])
        /\ Waiting(u, d + 1)'
    BY <2>1, <2>2, TakeDue
  <2>4. \A n \in Nat : n = written[u] + 2 => n = d + 1
    BY <1>5, <2>2
  <2> QED
    BY <2>1, <2>2, <2>3, <2>4
<1>8. ASSUME open, answer[u] = "error"
      PROVE  Erred(u) /\ First.type # "upload_start" /\ NoStartWaits(u)'
  <2>1. Erred(u)
    BY <1>8 DEF UploadInv, OpenInv
  <2>2. First.type # "upload_start"
    BY <1>2, <2>1 DEF Erred, NoStartWaits
  <2> QED
    BY <2>1, <2>2, TakeOther DEF Erred
<1> QED
  BY <1>3, <1>4, <1>6, <1>7, <1>8

\* After the close nobody is told anything, and an upload that is complete has no
\* message left.
LEMMA TakenUnheard ==
  ASSUME TypeInv, NEW u \in Uploads, UploadInv(u), Takes, Readable, Concerns(First, u),
         UNCHANGED <<policy, open, size, sent>>, faults' = faults, ~open,
         answer' = answer \/ Tells(u, "error")
  PROVE  UploadInv(u)'
<1>1. answer' = answer
  BY DEF Tells
<1>2. answer[u] # "complete" /\ policy # "srp_required"
  BY TakenFacts
<1> QED
  BY <1>1, <1>2 DEF UploadInv, OpenInv, DoneInv, ClosedInv, CauseInv

LEMMA StartKeeps ==
  ASSUME TypeInv, HandleUploadStart, NEW u \in Uploads, First.id = u, UploadInv(u)
  PROVE  UploadInv(u)'
<1>1. /\ Takes /\ Readable /\ Concerns(First, u) /\ First.type = "upload_start"
      /\ UNCHANGED <<policy, open, uploadVars, closeVars, size, sent, faults>>
      /\ answer' = answer \/ Tells(u, "error")
  BY DEF HandleUploadStart, clientVars, Concerns, UploadTypes
<1>2. CASE ~open
  BY <1>1, <1>2, TakenUnheard
<1>3. CASE open
  <2>1. answer[u] \in {None, "error"}
    BY <1>1, TakenFacts DEF TypeInv
  <2>2. answer[u] = None
    BY <1>1, <1>3, <2>1, TakenFacts
  <2>3. uploads[u] = None
    <3>1. SUFFICES ASSUME uploads[u] # None PROVE FALSE
      OBVIOUS
    <3>2. Place(First, size[u]) = written[u] + 1
      BY <1>1, <1>3, <2>2, <3>1, TakenFacts
    <3> QED
      BY <1>1, <3>2 DEF Place, TypeInv
  <2>4. Unstarted(u) /\ Waiting(u, 1)'
    BY <1>1, <1>3, <2>2, <2>3, TakenFacts
  <2>5. Handling(u, "start")' /\ answer' = answer
    BY <2>3 DEF HandleUploadStart, Awaits, Handling, clientVars
  <2>6. Unstarted(u)'
    BY <1>1, <2>4, <2>5 DEF Unstarted, uploadVars
  <2>7. None # "complete" /\ None # "error"
    BY ServerConnectionAssumption
  <2> QED
    BY <1>1, <1>3, <2>2, <2>5, <2>6, <2>7
    DEF UploadInv, OpenInv, DoneInv, ClosedInv, CauseInv, closeVars
<1> QED
  BY <1>2, <1>3

LEMMA EmptyFile == Whole(0) = <<>> /\ \A n \in Nat : Whole(n) \in Seq(Nat) /\ Len(Whole(n)) = n
BY DEF Whole

LEMMA ChunkKeeps ==
  ASSUME TypeInv, HandleUploadChunk, NEW u \in Uploads, First.id = u, UploadInv(u)
  PROVE  UploadInv(u)'
<1>1. /\ Takes /\ Readable /\ Concerns(First, u) /\ First.type = "upload_chunk"
      /\ UNCHANGED <<policy, open, written, closeVars, size, sent>> /\ faults' = faults
      /\ answer' = answer \/ Tells(u, "error")
  BY DEF HandleUploadChunk, Concerns, UploadTypes
<1>2. CASE ~open
  BY <1>1, <1>2, TakenUnheard
<1>3. CASE open /\ answer[u] = "error"
  <2>1. Erred(u) /\ NoStartWaits(u)'
    BY <1>1, <1>3, TakenFacts
  <2>2. uploads[u] = None /\ file[u] = None /\ ~HandlerOf(u) /\ running = Idle
    BY <1>1, <2>1, TakesIdle DEF Erred, Stages
  <2>3. UNCHANGED <<uploads, manager, file, running>> /\ answer'[u] = answer[u]
    <3>1. Tells(u, "error") /\ UNCHANGED <<uploads, manager, file, running>>
      BY <2>2 DEF HandleUploadChunk
    <3> QED
      BY <1>3, <3>1, ServerConnectionAssumption DEF Tells
  <2>4. Erred(u)'
    BY <2>1, <2>2, <2>3 DEF Erred, HandlerOf
  <2> QED
    BY <1>1, <1>3, <2>3, <2>4, ServerConnectionAssumption
    DEF UploadInv, OpenInv, DoneInv, ClosedInv, CauseInv, closeVars
<1>4. CASE open /\ answer[u] = None
  <2>1. First \in Messages /\ written[u] \in Nat /\ size[u] \in Nat
    BY <1>1, FirstIsMessage, ServerConnectionAssumption DEF TypeInv
  <2>2. uploads[u] # None
    BY <1>1, <1>4, TakenFacts
  <2>3. /\ Underway(u) /\ Place(First, size[u]) = written[u] + 1
        /\ InFile(First, size[u])
        /\ \A n \in Nat : n = written[u] + 2 => Waiting(u, n)'
    BY <1>1, <1>4, <2>2, TakenFacts
  <2>4. First.offset = written[u] /\ written[u] < size[u] /\ uploads[u] = written[u]
    <3>1. First.offset \in Nat
      BY <1>1, <2>1, MessageFields, ServerConnectionAssumption
    <3> QED
      BY <1>1, <2>1, <2>3, <3>1 DEF Place, InFile, Underway
  <2>5. OffsetFits(First) /\ manager[u] \in {"pending", "streaming"}
    BY <2>3, <2>4 DEF OffsetFits, Underway
  <2>6. /\ running' = [type |-> "write", of |-> First] /\ UNCHANGED <<uploads, answer>>
        /\ manager' = [manager EXCEPT ![u] = "streaming"]
        /\ file' = [file EXCEPT ![u] = IF @ = None THEN <<>> ELSE @]
    BY <2>2, <2>5, ServerConnectionAssumption DEF HandleUploadChunk, Awaits
  <2>7. Handling(u, "write")' /\ running'.of.offset = written'[u]
    BY <1>1, <2>4, <2>6 DEF Handling
  <2>8. manager'[u] = "streaming" /\ file'[u] = Whole(written[u])
    <3>1. manager'[u] = "streaming" /\ file'[u] = IF file[u] = None THEN <<>> ELSE file[u]
      BY <2>6 DEF TypeInv
    <3>2. Whole(written[u]) # None
      BY <2>1, EmptyFile, ServerConnectionAssumption
    <3>3. file[u] = None => written[u] = 0
      BY <2>3, <3>2 DEF Underway
    <3> QED
      BY <2>3, <3>1, <3>3, EmptyFile DEF Underway
  <2>9. PICK n \in Nat : n = written[u] + 2
    BY <2>1
  <2>10. Waiting(u, written[u] + 2)'
    BY <1>1, <2>3, <2>9
  <2>11. Underway(u)'
    BY <1>1, <2>1, <2>4, <2>6, <2>7, <2>8, <2>10 DEF Underway
  <2> QED
    BY <1>1, <1>4, <2>6, <2>11, ServerConnectionAssumption
    DEF UploadInv, OpenInv, DoneInv, ClosedInv, CauseInv, closeVars
<1> QED
  BY <1>1, <1>2, <1>3, <1>4, TakenFacts DEF TypeInv

LEMMA EndKeeps ==
  ASSUME TypeInv, HandleUploadEnd, NEW u \in Uploads, First.id = u, UploadInv(u)
  PROVE  UploadInv(u)'
<1>1. /\ Takes /\ Readable /\ Concerns(First, u) /\ First.type = "upload_end"
      /\ UNCHANGED <<policy, open, written, file, closeVars, size, sent>> /\ faults' = faults
      /\ answer' = answer \/ Tells(u, "error")
  BY DEF HandleUploadEnd, Concerns, UploadTypes
<1>2. CASE ~open
  BY <1>1, <1>2, TakenUnheard
<1>3. CASE open /\ answer[u] = "error"
  <2>1. Erred(u) /\ NoStartWaits(u)'
    BY <1>1, <1>3, TakenFacts
  <2>2. uploads[u] = None /\ file[u] = None /\ ~HandlerOf(u)
    BY <1>1, <2>1, TakesIdle DEF Erred, Stages
  <2>3. UNCHANGED <<uploads, manager, running>> /\ answer'[u] = answer[u]
    <3>1. Tells(u, "error") /\ UNCHANGED <<uploads, manager, running>>
      BY <2>2 DEF HandleUploadEnd
    <3> QED
      BY <1>3, <3>1, ServerConnectionAssumption DEF Tells
  <2>4. Erred(u)'
    BY <1>1, <2>1, <2>2, <2>3 DEF Erred, HandlerOf
  <2> QED
    BY <1>1, <1>3, <2>3, <2>4, ServerConnectionAssumption
    DEF UploadInv, OpenInv, DoneInv, ClosedInv, CauseInv, closeVars
<1>4. CASE open /\ answer[u] = None
  <2>1. written[u] \in Nat /\ size[u] \in Nat
    BY ServerConnectionAssumption DEF TypeInv
  <2>2. uploads[u] # None
    BY <1>1, <1>4, TakenFacts
  <2>3. /\ Underway(u) /\ Place(First, size[u]) = written[u] + 1
        /\ \A n \in Nat : n = written[u] + 2 => Waiting(u, n)'
    BY <1>1, <1>4, <2>2, TakenFacts
  <2>4. written[u] = size[u] /\ manager[u] \in {"pending", "streaming"}
    BY <1>1, <2>1, <2>3 DEF Place, Underway
  <2>5. running' = [type |-> "end", of |-> First] /\ UNCHANGED <<uploads, manager, answer>>
    BY <2>2, <2>4 DEF HandleUploadEnd, Awaits
  <2>6. Handling(u, "end")'
    BY <2>5 DEF Handling
  <2>7. PICK n \in Nat : n = size[u] + 2
    BY <2>1
  <2>8. Waiting(u, size[u] + 2)'
    BY <1>1, <2>3, <2>4, <2>7
  <2>9. Underway(u)'
    BY <1>1, <2>1, <2>3, <2>4, <2>5, <2>6, <2>8 DEF Underway
  <2> QED
    BY <1>1, <1>4, <2>5, <2>9, ServerConnectionAssumption
    DEF UploadInv, OpenInv, DoneInv, ClosedInv, CauseInv, closeVars
<1> QED
  BY <1>1, <1>2, <1>3, <1>4, TakenFacts DEF TypeInv

-----------------------------------------------------------------------------
(* What the handler awaited comes to its end                               *)

LEMMA AwaitedElsewhere ==
  ASSUME TypeInv, NEW v \in Uploads, NEW u \in Uploads, u # v,
         \/ UploadStarted(v) \/ ChunkWritten(v) \/ WriteFails(v) \/ CancelDone(v)
         \/ UploadEnded(v) \/ EndFails(v)
  PROVE  Untouched(u)
<1>1. /\ running.type \in Stages /\ running.of.id = v
      /\ running' = Idle \/ running' = [running EXCEPT !.type = "cancel"]
  BY DEF UploadStarted, ChunkWritten, WriteFails, CancelDone, UploadEnded, EndFails, Returns,
         Stages
<1>2. running' = Idle \/ running'.of.id = v
  BY <1>1 DEF TypeInv, Idle, Stages
<1>3. ~HandlerOf(u) /\ ~HandlerOf(u)'
  BY <1>1, <1>2 DEF HandlerOf, Idle, Stages
<1>4. UNCHANGED <<policy, open, messageQueue, closeVars, size, sent>> /\ faults \subseteq faults'
  BY DEF UploadStarted, ChunkWritten, WriteFails, CancelDone, UploadEnded, EndFails, clientVars
<1>5. answer'[u] = answer[u]
  BY DEF UploadStarted, ChunkWritten, WriteFails, CancelDone, UploadEnded, EndFails, clientVars,
         Tells, TypeInv
<1>6. uploads'[u] = uploads[u] /\ manager'[u] = manager[u]
  BY DEF UploadStarted, ChunkWritten, WriteFails, CancelDone, UploadEnded, EndFails,
         Failed, DropEntries, TypeInv
<1>7. file'[u] = file[u] /\ written'[u] = written[u]
  BY DEF UploadStarted, ChunkWritten, WriteFails, CancelDone, UploadEnded, EndFails, TypeInv
<1> QED
  BY <1>3, <1>4, <1>5, <1>6, <1>7 DEF Untouched, Waiting, NoneWaits, NoStartWaits

LEMMA WaitingKept ==
  ASSUME UNCHANGED <<messageQueue, sent, size>>, NEW u, NEW n, Waiting(u, n)
  PROVE  Waiting(u, n)'
BY DEF Waiting

\* Once its start was taken, an upload has no other.
LEMMA NoStartAnyMore ==
  ASSUME TypeInv, NEW u \in Uploads, NEW n \in Nat \ {0}, Waiting(u, n)
  PROVE  NoStartWaits(u)
<1>1. sent[u] \in Nat /\ n <= sent[u]
  BY DEF TypeInv, Waiting
<1>2. \A i \in 1..Len(messageQueue) :
         Concerns(messageQueue[i], u) => Place(messageQueue[i], size[u]) \in n..(sent[u] - 1)
  BY DEF Waiting
<1> QED
  BY <1>1, <1>2 DEF NoStartWaits, Place

\* What is known of the upload whose handler goes on
LEMMA AwaitedFacts ==
  ASSUME TypeInv, NEW u \in Uploads, UploadInv(u), HandlerOf(u)
  PROVE  /\ answer[u] # "complete"
         /\ open /\ answer[u] = None /\ running.type = "start" =>
               Unstarted(u) /\ Waiting(u, 1)
         /\ open /\ answer[u] = None /\ running.type # "start" => Underway(u)
         /\ open /\ answer[u] = None => running.type # "cancel"
         /\ open /\ answer[u] = "error" => Erred(u) /\ running.type = "cancel"
BY DEF UploadInv, OpenInv, DoneInv, Unstarted, Underway, Erred, HandlerOf, Handling, Stages

LEMMA StartedKeeps ==
  ASSUME TypeInv, NEW u \in Uploads, UploadStarted(u), UploadInv(u)
  PROVE  UploadInv(u)'
<1>1. /\ Handling(u, "start") /\ HandlerOf(u) /\ running' = Idle
      /\ UNCHANGED <<policy, open, messageQueue, written, file, closeVars, size, sent>>
  BY DEF UploadStarted, Handling, HandlerOf, Returns, Stages
<1>2. ~HandlerOf(u)' /\ \A what \in Stages : ~Handling(u, what)'
  BY <1>1, NoHandler
<1>3. answer[u] # "complete" /\ ~(open /\ answer[u] = "error")
  BY <1>1, AwaitedFacts DEF Handling
<1>4. CASE /\ uploads' = [uploads EXCEPT ![u] = 0]
           /\ manager' = [manager EXCEPT ![u] = "pending"]
           /\ UNCHANGED <<answer, faults>>
  <2>1. uploads'[u] = 0 /\ manager'[u] = "pending"
    BY <1>4 DEF TypeInv
  <2>2. ASSUME open, answer[u] = None PROVE Underway(u)'
    <3>1. Unstarted(u) /\ Waiting(u, 1)
      BY <1>1, <2>2, AwaitedFacts DEF Handling
    <3>2. Waiting(u, 1)' /\ written'[u] = 0 /\ file'[u] = None
      BY <1>1, <3>1, WaitingKept DEF Unstarted
    <3>3. Waiting(u, written[u] + 1)'
      BY <3>2
    <3>4. size'[u] \in Nat
      BY <1>1, ServerConnectionAssumption DEF TypeInv
    <3> QED
      BY <1>2, <2>1, <3>2, <3>3, <3>4 DEF Underway
  <2>3. OpenInv(u)' /\ DoneInv(u)' /\ CauseInv(u)'
    BY <1>1, <1>3, <1>4, <2>2 DEF UploadInv, OpenInv, DoneInv, CauseInv, closeVars
  <2>4. ClosedInv(u)'
    BY <1>1, <1>2, <2>1, ServerConnectionAssumption
    DEF UploadInv, ClosedInv, Kept, Doomed, Left, Handling, closeVars, Stages
  <2> QED
    BY <2>3, <2>4 DEF UploadInv
<1>5. CASE Tells(u, "error") /\ faults' = faults \cup {u} /\ UNCHANGED <<uploads, manager>>
  <2>1. answer'[u] = IF open /\ answer[u] = None THEN "error" ELSE answer[u]
    BY <1>5 DEF Tells, TypeInv
  <2>2. ASSUME open, answer[u] = None PROVE Erred(u)'
    <3>1. Unstarted(u) /\ Waiting(u, 1)
      BY <1>1, <2>2, AwaitedFacts DEF Handling
    <3>2. NoStartWaits(u)
      BY <3>1, NoStartAnyMore
    <3> QED
      BY <1>1, <1>2, <1>5, <3>1, <3>2 DEF Erred, Unstarted, NoStartWaits
  <2>3. OpenInv(u)' /\ DoneInv(u)' /\ CauseInv(u)'
    BY <1>1, <1>3, <1>5, <2>1, <2>2, ServerConnectionAssumption
    DEF UploadInv, OpenInv, DoneInv, CauseInv, closeVars, TypeInv
  <2>4. ClosedInv(u)'
    BY <1>1, <1>2, <1>5
    DEF UploadInv, ClosedInv, Kept, Doomed, Left, Handling, closeVars, Stages
  <2> QED
    BY <2>3, <2>4 DEF UploadInv
<1> QED
  BY <1>4, <1>5 DEF UploadStarted

LEMMA WholeGrows ==
  ASSUME NEW n \in Nat PROVE Append(Whole(n), n) = Whole(n + 1)
BY DEF Whole

LEMMA WrittenKeeps ==
  ASSUME TypeInv, NEW u \in Uploads, ChunkWritten(u), UploadInv(u)
  PROVE  UploadInv(u)'
<1>1. /\ Handling(u, "write") /\ HandlerOf(u) /\ running' = Idle
      /\ UNCHANGED <<policy, open, messageQueue, manager, closeVars, size, sent, answer, faults>>
  BY DEF ChunkWritten, Handling, HandlerOf, Returns, Stages, clientVars
<1>2. ~HandlerOf(u)' /\ \A what \in Stages : ~Handling(u, what)'
  BY <1>1, NoHandler
<1>3. answer[u] # "complete" /\ ~(open /\ answer[u] = "error")
  BY <1>1, AwaitedFacts DEF Handling
<1>4. /\ written[u] \in Nat /\ size[u] \in Nat /\ None \notin Nat
      /\ None # Whole(written[u])
  BY EmptyFile, ServerConnectionAssumption DEF TypeInv
<1>5. /\ written'[u] = written[u] + 1
      /\ uploads'[u] = IF uploads[u] = None THEN None ELSE written[u] + 1
      /\ file'[u] = IF file[u] = None THEN None ELSE Append(file[u], running.of.offset)
  BY DEF ChunkWritten, CountAfter, TypeInv
<1>6. ASSUME open, answer[u] = None PROVE Underway(u)'
  <2>1. /\ Underway(u) /\ running.of.offset = written[u] /\ written[u] < size[u]
        /\ manager[u] = "streaming" /\ Waiting(u, written[u] + 2)
    BY <1>1, <1>6, AwaitedFacts DEF Underway, Handling, Stages
  <2>2. uploads[u] = written[u] /\ file[u] = Whole(written[u])
    BY <2>1 DEF Underway
  <2>3. file'[u] = Whole(written[u] + 1) /\ uploads'[u] = written[u] + 1
    BY <1>4, <1>5, <2>1, <2>2, WholeGrows
  <2>4. Waiting(u, written[u] + 1)'
    <3>1. PICK n \in Nat : n = written[u] + 2
      BY <1>4
    <3>2. Waiting(u, n)'
      BY <1>1, <2>1, <3>1, WaitingKept
    <3>3. n = written'[u] + 1
      BY <1>4, <1>5, <3>1
    <3> QED
      BY <3>2, <3>3
  <2> QED
    BY <1>1, <1>2, <1>4, <1>5, <2>1, <2>3, <2>4 DEF Underway
<1>7. OpenInv(u)' /\ DoneInv(u)' /\ CauseInv(u)'
  BY <1>1, <1>3, <1>6 DEF UploadInv, OpenInv, DoneInv, CauseInv, closeVars
<1>8. ClosedInv(u)'
  BY <1>1, <1>2, <1>4, <1>5 DEF UploadInv, ClosedInv, Kept, Doomed, Left, closeVars, Stages
<1> QED
  BY <1>7, <1>8 DEF UploadInv

\* A write or an end of the stream that fails
LEMMA FailureKeeps ==
  ASSUME TypeInv, NEW u \in Uploads, WriteFails(u) \/ EndFails(u), UploadInv(u)
  PROVE  UploadInv(u)'
<1>1. /\ Handling(u, "write") \/ Handling(u, "end")
      /\ HandlerOf(u) /\ running.type \notin {"start", "cancel"}
      /\ UNCHANGED <<policy, open, messageQueue, file, closeVars, size, sent>>
      /\ Tells(u, "error") /\ Failed(u) /\ faults' = faults \cup {u}
      /\ running' = [running EXCEPT !.type = "cancel"]
  BY DEF WriteFails, EndFails, Handling, HandlerOf, Stages
<1>2. /\ Handling(u, "cancel")' /\ running'.type = "cancel"
      /\ ~Handling(u, "write")' /\ ~Handling(u, "end")'
  BY <1>1 DEF Handling, TypeInv, Idle, Stages
<1>3. answer[u] # "complete" /\ ~(open /\ answer[u] = "error")
  BY <1>1, AwaitedFacts
<1>4. /\ uploads'[u] = None
      /\ manager'[u] = IF manager[u] = None THEN None ELSE "cancelled"
      /\ answer'[u] = IF open /\ answer[u] = None THEN "error" ELSE answer[u]
  BY <1>1 DEF Failed, StatusAfterCancel, Tells, TypeInv
<1>5. ASSUME open, answer[u] = None PROVE Erred(u)'
  <2>1. Underway(u)
    BY <1>1, <1>5, AwaitedFacts
  <2>2. manager[u] # None
    BY <2>1, ServerConnectionAssumption DEF Underway
  <2>3. NoStartWaits(u)
    <3>1. Waiting(u, written[u] + 2) \/ Waiting(u, size[u] + 2)
      BY <1>1, <2>1 DEF Underway
    <3>2. written[u] + 2 \in Nat \ {0} /\ size[u] + 2 \in Nat \ {0}
      BY ServerConnectionAssumption DEF TypeInv
    <3> QED
      BY <3>1, <3>2, NoStartAnyMore
  <2>4. NoStartWaits(u)'
    BY <1>1, <2>3 DEF NoStartWaits
  <2> QED
    BY <1>2, <1>4, <2>2, <2>4, ServerConnectionAssumption DEF Erred
<1>6. OpenInv(u)' /\ DoneInv(u)' /\ CauseInv(u)'
  BY <1>1, <1>3, <1>4, <1>5, ServerConnectionAssumption
  DEF UploadInv, OpenInv, DoneInv, CauseInv, closeVars, TypeInv
<1>7. ClosedInv(u)'
  <2>1. SUFFICES ASSUME ~open, policy = "srp_required" PROVE Kept(u)' \/ Doomed(u)'
    BY <1>1, <1>2 DEF ClosedInv
  <2>2. Kept(u) \/ cancelling = u \/ Left(u)
    BY <1>1, <2>1 DEF UploadInv, ClosedInv, Kept
  <2> QED
    BY <1>1, <1>2, <1>4, <2>2, ServerConnectionAssumption DEF Kept, Doomed, Left, closeVars
<1> QED
  BY <1>6, <1>7 DEF UploadInv

LEMMA CancelKeeps ==
  ASSUME TypeInv, NEW u \in Uploads, CancelDone(u), UploadInv(u)
  PROVE  UploadInv(u)'
<1>1. /\ Handling(u, "cancel") /\ HandlerOf(u) /\ running' = Idle
      /\ UNCHANGED <<policy, open, messageQueue, uploads, closeVars, size, sent, answer, faults>>
  BY DEF CancelDone, Handling, HandlerOf, Returns, Stages, clientVars
<1>2. ~HandlerOf(u)' /\ \A what \in Stages : ~Handling(u, what)'
  BY <1>1, NoHandler
<1>3. /\ answer[u] # "complete" /\ ~(open /\ answer[u] = None)
      /\ open /\ answer[u] = "error" => Erred(u)
  BY <1>1, AwaitedFacts DEF Handling
<1>4. manager'[u] = None /\ file'[u] = IF manager[u] = None THEN file[u] ELSE None
  BY DEF CancelDone, TypeInv
<1>5. OpenInv(u)' /\ DoneInv(u)' /\ CauseInv(u)'
  BY <1>1, <1>2, <1>3, <1>4
  DEF UploadInv, OpenInv, DoneInv, CauseInv, Erred, NoStartWaits, closeVars
<1>6. ClosedInv(u)'
  BY <1>1, <1>2, <1>4 DEF UploadInv, ClosedInv, Kept, Doomed, Left, closeVars, Stages
<1> QED
  BY <1>5, <1>6 DEF UploadInv

LEMMA EndedKeeps ==
  ASSUME TypeInv, NEW u \in Uploads, UploadEnded(u), UploadInv(u)
  PROVE  UploadInv(u)'
<1>1. /\ Handling(u, "end") /\ HandlerOf(u) /\ running.type \notin {"start", "cancel"}
      /\ UNCHANGED <<policy, open, messageQueue, written, file, closeVars, size, sent, faults>>
  BY DEF UploadEnded, Handling, HandlerOf, Stages
<1>2. answer[u] # "complete" /\ ~(open /\ answer[u] = "error")
  BY <1>1, AwaitedFacts
<1>3. written[u] \in Nat /\ size[u] \in Nat /\ sent[u] \in Nat
  BY ServerConnectionAssumption DEF TypeInv
<1>4. ASSUME open, answer[u] = None
      PROVE  /\ Underway(u) /\ written[u] = size[u] /\ Waiting(u, size[u] + 2)
  BY <1>1, <1>4, AwaitedFacts DEF Underway, Handling, Stages
<1>5. CASE file[u] # None
  <2>1. /\ running' = Idle /\ uploads'[u] = None /\ manager'[u] = None
        /\ answer'[u] = IF open /\ answer[u] = None THEN "complete" ELSE answer[u]
    BY <1>5 DEF UploadEnded, Returns, DropEntries, Tells, TypeInv
  <2>2. ~HandlerOf(u)' /\ \A what \in Stages : ~Handling(u, what)'
    BY <2>1, NoHandler
  <2>3. ASSUME open, answer[u] = None
        PROVE  NoneWaits(u) /\ file[u] = Whole(size[u]) /\ cancelling # u
    <3>1. file[u] = Whole(size[u])
      BY <1>4, <1>5, <2>3 DEF Underway
    <3>2. cancelling # u
      BY <2>3, ServerConnectionAssumption DEF UploadInv, OpenInv
    <3>3. ASSUME NEW i \in 1..Len(messageQueue), Concerns(messageQueue[i], u) PROVE FALSE
      <4>1. /\ Place(messageQueue[i], size[u]) \in (size[u] + 2)..(sent[u] - 1)
            /\ InFile(messageQueue[i], size[u])
        BY <1>4, <2>3, <3>3 DEF Waiting
      <4>2. messageQueue[i] \in Messages
        BY <3>3 DEF TypeInv
      <4>3. messageQueue[i].type = "upload_chunk" => messageQueue[i].offset \in Nat
        BY <4>2, MessageFields, ServerConnectionAssumption
      <4> QED
        BY <1>3, <4>1, <4>3 DEF Place, InFile
    <3> QED
      BY <3>1, <3>2, <3>3 DEF NoneWaits
  <2>4. DoneInv(u)'
    BY <1>1, <1>2, <2>1, <2>2, <2>3, ServerConnectionAssumption DEF DoneInv, NoneWaits, closeVars
  <2>5. OpenInv(u)' /\ CauseInv(u)'
    BY <1>1, <1>2, <2>1, ServerConnectionAssumption
    DEF UploadInv, OpenInv, CauseInv, closeVars, TypeInv
  <2>6. ClosedInv(u)'
    BY <1>1, <2>2 DEF UploadInv, ClosedInv, Kept, Stages
  <2> QED
    BY <2>4, <2>5, <2>6 DEF UploadInv
<1>6. CASE file[u] = None
  <2>1. /\ running' = [running EXCEPT !.type = "cancel"] /\ uploads'[u] = None
        /\ answer'[u] = IF open /\ answer[u] = None THEN "error" ELSE answer[u]
    BY <1>6 DEF UploadEnded, Failed, Tells, TypeInv
  <2>2. /\ Handling(u, "cancel")' /\ running'.type = "cancel"
        /\ ~Handling(u, "write")' /\ ~Handling(u, "end")'
    BY <1>1, <2>1 DEF Handling, TypeInv, Idle, Stages
  <2>3. ASSUME open, answer[u] = None PROVE Erred(u)' /\ size[u] = 0
    <3>1. size[u] = 0
      BY <1>3, <1>4, <1>6, <2>3, EmptyFile, ServerConnectionAssumption DEF Underway
    <3>2. size[u] + 2 \in Nat \ {0}
      BY <1>3
    <3>3. NoStartWaits(u)
      BY <1>4, <2>3, <3>2, NoStartAnyMore
    <3> QED
      BY <1>1, <1>6, <2>1, <2>2, <3>1, <3>3 DEF Erred, NoStartWaits
  <2>4. OpenInv(u)' /\ DoneInv(u)' /\ CauseInv(u)'
    BY <1>1, <1>2, <2>1, <2>3, ServerConnectionAssumption
    DEF UploadInv, OpenInv, DoneInv, CauseInv, closeVars, TypeInv
  <2>5. ClosedInv(u)'
    BY <1>1, <1>6, <2>2 DEF ClosedInv, Kept
  <2> QED
    BY <2>4, <2>5 DEF UploadInv
<1> QED
  BY <1>5, <1>6

-----------------------------------------------------------------------------
(* The close and the cleanup                                               *)

\* What the cleanup does to an upload when it goes on
LEMMA CleansUpOne ==
  ASSUME TypeInv, NEW seen \in SUBSET Uploads,
         NEW status \in [Uploads -> {"pending", "streaming", "cancelled", None}],
         CleansUp(seen, status), NEW u \in Uploads
  PROVE  \/ /\ uploads[u] = None \/ status[u] = None \/ u \in seen
            /\ manager'[u] = status[u] /\ cancelling' # u
            /\ uploads'[u] \in {uploads[u], None}
         \/ /\ uploads[u] # None /\ status[u] # None /\ cancelling' = u
         \/ /\ uploads'[u] = uploads[u] /\ manager'[u] = status[u] /\ cancelling' \in Uploads
            /\ cancelling' # u
            /\ u \in seen <=> u \in visited'
<1> DEFINE left == {v \in Uploads : uploads[v] # None /\ status[v] # None} \ seen
<1>1. CASE left = {}
  <2>1. u \notin left
    BY <1>1
  <2>2. uploads' = [v \in Uploads |-> None] /\ manager' = status /\ cancelling' = None
    BY <1>1 DEF CleansUp
  <2> QED
    BY <2>1, <2>2, ServerConnectionAssumption
<1>2. CASE left # {}
  <2>1. PICK v \in left : /\ manager' = [status EXCEPT ![v] = "cancelled"]
                          /\ cancelling' = v /\ visited' = seen \cup {v}
                          /\ UNCHANGED uploads
    BY <1>2 DEF CleansUp
  <2>2. CASE v = u
    BY <2>1, <2>2
  <2>3. CASE v # u
    BY <2>1, <2>3
  <2> QED
    BY <2>2, <2>3
<1> QED
  BY <1>1, <1>2

LEMMA CloseKeeps ==
  ASSUME TypeInv, Close, NEW u \in Uploads, UploadInv(u)
  PROVE  UploadInv(u)'
<1>1. /\ open /\ ~open' /\ CleansUp({}, manager)
      /\ UNCHANGED <<policy, messageQueue, running, written, file, clientVars>>
  BY DEF Close
<1>2. /\ {} \in SUBSET Uploads
      /\ manager \in [Uploads -> {"pending", "streaming", "cancelled", None}]
      /\ written[u] \in Nat
  BY DEF TypeInv
<1>3. \/ /\ uploads[u] = None \/ manager[u] = None
         /\ manager'[u] = manager[u] /\ cancelling' # u
         /\ uploads'[u] \in {uploads[u], None}
      \/ /\ uploads[u] # None /\ manager[u] # None /\ cancelling' = u
      \/ /\ uploads'[u] = uploads[u] /\ manager'[u] = manager[u] /\ cancelling' \in Uploads
         /\ cancelling' # u /\ u \notin visited'
  <2> DEFINE Outcome(seen, status) ==
               \/ /\ uploads[u] = None \/ status[u] = None \/ u \in seen
                  /\ manager'[u] = status[u] /\ cancelling' # u
                  /\ uploads'[u] \in {uploads[u], None}
               \/ /\ uploads[u] # None /\ status[u] # None /\ cancelling' = u
               \/ /\ uploads'[u] = uploads[u] /\ manager'[u] = status[u]
                  /\ cancelling' \in Uploads /\ cancelling' # u
                  /\ u \in seen <=> u \in visited'
  <2>1. Outcome({}, manager)
    BY <1>1, <1>2, CleansUpOne
  <2> QED
    BY <2>1
<1>4. OpenInv(u)' /\ CauseInv(u)'
  BY <1>1 DEF UploadInv, OpenInv, CauseInv, clientVars
<1>5. DoneInv(u)'
  BY <1>1, <1>3 DEF UploadInv, DoneInv, clientVars, HandlerOf, NoneWaits
<1>6. ASSUME policy = "srp_required" PROVE ClosedInv(u)'
  <2>1. answer[u] \in {"complete", "error", None} /\ None \notin Uploads /\ None \notin Nat
    BY ServerConnectionAssumption DEF TypeInv
  <2>2. CASE answer[u] = "complete"
    <3>1. size[u] \in Nat
      BY ServerConnectionAssumption DEF TypeInv
    <3>2. Len(file[u]) = size[u] /\ ~HandlerOf(u)
      BY <2>2, <3>1, EmptyFile DEF UploadInv, DoneInv
    <3> QED
      BY <1>1, <3>2 DEF ClosedInv, Kept, Handling, HandlerOf, Stages, clientVars
  <2>3. CASE answer[u] = "error"
    <3>1. Erred(u)
      BY <1>1, <2>3 DEF UploadInv, OpenInv
    <3>2. uploads[u] = None /\ ~Handling(u, "write") /\ ~Handling(u, "end")
      BY <3>1 DEF Erred, Handling, HandlerOf, Stages
    <3>3. file[u] # None => Handling(u, "cancel") /\ manager'[u] # None
      BY <1>3, <3>1, <3>2 DEF Erred
    <3> QED
      BY <1>1, <3>2, <3>3 DEF ClosedInv, Kept, Doomed, Handling
  <2>4. CASE answer[u] = None /\ Unstarted(u)
    <3>1. file[u] = None
      BY <2>4 DEF Unstarted
    <3> QED
      BY <1>1, <3>1 DEF ClosedInv, Kept, Handling
  <2>5. CASE answer[u] = None /\ Underway(u)
    <3>1. uploads[u] # None /\ manager[u] # None
      BY <1>2, <2>1, <2>5, ServerConnectionAssumption DEF Underway
    <3>2. cancelling' = u \/ Left(u)'
      BY <1>3, <2>1, <3>1 DEF Left
    <3>3. Handling(u, "end") => Kept(u)
      <4>1. size[u] \in Nat
        BY ServerConnectionAssumption DEF TypeInv
      <4>2. Handling(u, "end") => written[u] = size[u]
        BY <2>5 DEF Underway, Handling, HandlerOf, Stages
      <4> QED
        BY <2>5, <4>1, <4>2, EmptyFile DEF Underway, Kept
    <3> QED
      BY <1>1, <3>2, <3>3 DEF ClosedInv, Kept, Doomed, Handling, clientVars
  <2> QED
    BY <1>1, <2>1, <2>2, <2>3, <2>4, <2>5 DEF UploadInv, OpenInv
<1>7. ASSUME policy # "srp_required" PROVE ClosedInv(u)'
  BY <1>1, <1>7 DEF ClosedInv
<1> QED
  BY <1>4, <1>5, <1>6, <1>7 DEF UploadInv

LEMMA CleanupKeeps ==
  ASSUME TypeInv, CleanupStep, NEW u \in Uploads, UploadInv(u)
  PROVE  UploadInv(u)'
<1> DEFINE status == [manager EXCEPT ![cancelling] = None]
<1>1. /\ cancelling # None /\ cancelling \in Uploads
      /\ CleansUp(visited, status)
      /\ UNCHANGED <<connVars, written, clientVars>>
  BY DEF CleanupStep, TypeInv
<1>2. /\ visited \in SUBSET Uploads
      /\ status \in [Uploads -> {"pending", "streaming", "cancelled", None}]
      /\ status[u] = IF u = cancelling THEN None ELSE manager[u]
      /\ file'[u] = IF u = cancelling THEN None ELSE file[u]
  BY <1>1 DEF CleanupStep, TypeInv
<1> HIDE DEF status
<1>3. \/ /\ uploads[u] = None \/ status[u] = None \/ u \in visited
         /\ manager'[u] = status[u] /\ cancelling' # u
         /\ uploads'[u] \in {uploads[u], None}
      \/ /\ uploads[u] # None /\ status[u] # None /\ cancelling' = u
      \/ /\ uploads'[u] = uploads[u] /\ manager'[u] = status[u] /\ cancelling' \in Uploads
         /\ cancelling' # u
         /\ u \in visited <=> u \in visited'
  BY <1>1, <1>2, CleansUpOne
<1>4. ~open /\ ~open'
  BY <1>1 DEF UploadInv, OpenInv, connVars
<1>5. OpenInv(u)' /\ CauseInv(u)'
  BY <1>1, <1>4 DEF UploadInv, OpenInv, CauseInv, clientVars
<1>6. DoneInv(u)'
  BY <1>1, <1>2, <1>3 DEF UploadInv, DoneInv, connVars, clientVars, HandlerOf, NoneWaits
<1>7. ASSUME policy = "srp_required" PROVE ClosedInv(u)'
  <2>1. /\ Kept(u) \/ Doomed(u)
        /\ Handling(u, "write") => file[u] = None \/ cancelling = u \/ Left(u)
        /\ Handling(u, "end") => Kept(u)
    BY <1>4, <1>7 DEF UploadInv, ClosedInv
  <2>2. running' = running /\ size' = size
    BY <1>1 DEF connVars, clientVars
  <2>3. CASE u = cancelling
    BY <1>2, <2>2, <2>3 DEF ClosedInv, Kept
  <2>4. CASE u # cancelling
    <3>1. file'[u] = file[u] /\ status[u] = manager[u]
      BY <1>2, <2>4
    <3>2. Left(u) => cancelling' = u \/ Left(u)'
      BY <1>3, <3>1, ServerConnectionAssumption DEF Left
    <3>3. Handling(u, "cancel") /\ manager[u] # None => cancelling' = u \/ manager'[u] # None
      BY <1>3, <3>1
    <3> QED
      BY <2>1, <2>2, <2>4, <3>1, <3>2, <3>3 DEF ClosedInv, Kept, Doomed, Handling
  <2> QED
    BY <2>3, <2>4
<1>8. ASSUME policy # "srp_required" PROVE ClosedInv(u)'
  BY <1>1, <1>8 DEF ClosedInv, connVars
<1> QED
  BY <1>5, <1>6, <1>7, <1>8 DEF UploadInv

-----------------------------------------------------------------------------
(* The client                                                              *)

LEMMA ClientUploadKeeps ==
  ASSUME TypeInv, NEW v \in Uploads, ClientUploads(v), NEW u \in Uploads, UploadInv(u)
  PROVE  UploadInv(u)'
<1>1. size[v] \in Nat /\ sent[v] \in Nat /\ size[v] <= Chunks /\ Chunks \in Nat
  BY ServerConnectionAssumption DEF TypeInv
<1>2. PICK m \in Messages : /\ Sends(m) /\ Concerns(m, v)
                            /\ Place(m, size[v]) = sent[v] /\ InFile(m, size[v])
  <2>1. CASE sent[v] = 0 /\ Sends([type |-> "upload_start", id |-> v])
    BY <2>1 DEF Messages, Concerns, UploadTypes, Place, InFile
  <2>2. CASE sent[v] \in 1..size[v] /\ Sends([type |-> "upload_chunk", id |-> v,
                                             offset |-> sent[v] - 1])
    <3>1. sent[v] - 1 \in 0..Chunks /\ sent[v] - 1 < size[v] /\ (sent[v] - 1) + 1 = sent[v]
      BY <1>1, <2>2
    <3> QED
      BY <2>2, <3>1 DEF Messages, Concerns, UploadTypes, Place, InFile
  <2>3. CASE sent[v] = size[v] + 1 /\ Sends([type |-> "upload_end", id |-> v])
    BY <2>3 DEF Messages, Concerns, UploadTypes, Place, InFile
  <2> QED
    BY <2>1, <2>2, <2>3 DEF ClientUploads
<1>3. /\ messageQueue' = Append(messageQueue, m) /\ open
      /\ UNCHANGED <<policy, open, running, uploadVars, closeVars, size, answer, faults>>
      /\ answer[v] = None /\ sent' = [sent EXCEPT ![v] = @ + 1]
  BY <1>2 DEF Sends, ClientUploads
<1>4. CASE u # v
  <2>1. ~Concerns(m, u) /\ sent'[u] = sent[u]
    BY <1>2, <1>3, <1>4 DEF Concerns, TypeInv
  <2>2. Untouched(u)
    BY <1>3, <2>1, SendKeepsQueue DEF Untouched, uploadVars
  <2> QED
    BY <2>2, UntouchedKept
<1>5. CASE u = v
  <2>1. sent'[u] = sent[u] + 1
    BY <1>3, <1>5 DEF TypeInv
  <2>2. \A n \in Nat : Waiting(u, n) => Waiting(u, n)'
    BY <1>2, <1>3, <1>5, <2>1, SendKeepsQueue
  <2>3. /\ HandlerOf(u)' <=> HandlerOf(u)
        /\ \A what \in Stages : Handling(u, what)' <=> Handling(u, what)
    BY <1>3 DEF HandlerOf, Handling
  <2>4. Unstarted(u) => Unstarted(u)'
    BY <1>3, <2>2, <2>3 DEF Unstarted, uploadVars, Stages
  <2>5. Underway(u) => Underway(u)'
    <3>1. \A n \in {written[u] + 1, written[u] + 2, size[u] + 2} :
             Waiting(u, n) => Waiting(u, n)'
      <4>1. {written[u] + 1, written[u] + 2, size[u] + 2} \subseteq Nat
        BY <1>1, <1>5 DEF TypeInv
      <4> QED
        BY <2>2, <4>1
    <3> QED
      BY <1>3, <2>3, <3>1 DEF Underway, uploadVars, Stages
  <2> QED
    BY <1>3, <1>5, <2>4, <2>5, ServerConnectionAssumption
    DEF UploadInv, OpenInv, DoneInv, ClosedInv, CauseInv, closeVars
<1> QED
  BY <1>4, <1>5

-----------------------------------------------------------------------------
(* Results                                                                 *)

LEMMA ServerInvInit == Init => ServerInv
<1> SUFFICES ASSUME Init PROVE ServerInv
  OBVIOUS
<1>1. ASSUME NEW u \in Uploads PROVE UploadInv(u)
  <2>1. ~HandlerOf(u)
    BY DEF Init, HandlerOf, Idle, Stages
  <2>2. Waiting(u, 0)
    BY DEF Init, Waiting
  <2> QED
    BY <2>1, <2>2, ServerConnectionAssumption
    DEF Init, UploadInv, OpenInv, DoneInv, ClosedInv, CauseInv, Unstarted
<1> QED
  BY <1>1, TypeInit DEF Init, ServerInv, ListenersInv

LEMMA ListenersStep == ListenersInv /\ [Next]_vars => ListenersInv'
<1> SUFFICES ASSUME ListenersInv, [Next]_vars PROVE ListenersInv'
  OBVIOUS
<1>1. CASE HandleSubscribe \/ HandleUnsubscribe
  BY <1>1 DEF HandleSubscribe, HandleUnsubscribe, Readable, ListenersInv
<1>2. CASE Close
  BY <1>2 DEF Close, SubscriptionsAfterClose, ListenersInv
<1>3. CASE UNCHANGED <<policy, open, subscriptions>>
  BY <1>3 DEF ListenersInv
<1>4. HandlerStep => HandleSubscribe \/ HandleUnsubscribe \/ UNCHANGED <<policy, open, subscriptions>>
  BY DEF HandlerStep, DropUnreadable, HandleRequest, RequestDone, HandleUploadStart,
         HandleUploadChunk, HandleUploadEnd, UploadStarted, ChunkWritten, WriteFails,
         CancelDone, UploadEnded, EndFails
<1>5. CleanupStep \/ ClientSends \/ (\E u \in Uploads : ClientUploads(u)) \/ UNCHANGED vars
         => UNCHANGED <<policy, open, subscriptions>>
  BY DEF CleanupStep, ClientSends, ClientUploads, Sends, vars, connVars
<1> QED
  BY <1>1, <1>2, <1>3, <1>4, <1>5 DEF Next

LEMMA ServerInvStep == ServerInv /\ [Next]_vars => ServerInv'
<1> SUFFICES ASSUME ServerInv, [Next]_vars PROVE ServerInv'
  OBVIOUS
<1>1. TypeInv /\ ListenersInv /\ TypeInv' /\ ListenersInv'
  BY TypeStep, ListenersStep DEF ServerInv
<1>2. ASSUME NEW u \in Uploads PROVE UploadInv(u)'
  <2>1. UploadInv(u)
    BY DEF ServerInv
  <2>2. CASE HandleRequest \/ RequestDone \/ HandleSubscribe \/ HandleUnsubscribe \/ ClientSends
    BY <1>1, <2>1, <2>2, OthersUntouched, UntouchedKept
  <2>3. CASE HandleUploadStart \/ HandleUploadChunk \/ HandleUploadEnd
    BY <1>1, <2>1, <2>3, ElsewhereUntouched, UntouchedKept, StartKeeps, ChunkKeeps, EndKeeps
  <2>4. ASSUME NEW v \in Uploads,
               \/ UploadStarted(v) \/ ChunkWritten(v) \/ WriteFails(v) \/ CancelDone(v)
               \/ UploadEnded(v) \/ EndFails(v)
        PROVE  UploadInv(u)'
    <3>1. CASE u # v
      BY <1>1, <2>1, <2>4, <3>1, AwaitedElsewhere, UntouchedKept
    <3>2. CASE u = v
      BY <1>1, <2>1, <2>4, <3>2, StartedKeeps, WrittenKeeps, FailureKeeps, CancelKeeps,
         EndedKeeps
    <3> QED
      BY <3>1, <3>2
  <2>5. CASE DropUnreadable \/ Close \/ CleanupStep
    BY <1>1, <2>1, <2>5, DropKeeps, CloseKeeps, CleanupKeeps
  <2>6. ASSUME NEW v \in Uploads, ClientUploads(v) PROVE UploadInv(u)'
    BY <1>1, <2>1, <2>6, ClientUploadKeeps
  <2>7. CASE UNCHANGED vars
    <3>1. Untouched(u)
      BY <2>7 DEF vars, connVars, uploadVars, closeVars, clientVars, Untouched, Waiting,
                  NoneWaits, NoStartWaits
    <3> QED
      BY <1>1, <2>1, <3>1, UntouchedKept
  <2> QED
    BY <2>2, <2>3, <2>4, <2>5, <2>6, <2>7 DEF Next, HandlerStep
<1> QED
  BY <1>1, <1>2 DEF ServerInv

LEMMA ServerInvariance == Spec => []ServerInv
BY ServerInvInit, ServerInvStep, PTL DEF Spec

\* A file that was reported complete has every chunk of the client's file, in
\* order and once, whatever fails, and whenever the connection closes and its
\* cleanup runs beside the handler (ws-relay-handlers.ts, uploads/manager.ts).
THEOREM CompleteAlwaysWhole == Spec => []CompleteIsWhole
<1>1. ServerInv => CompleteIsWhole
  BY DEF ServerInv, UploadInv, DoneInv, Whole, CompleteIsWhole
<1> QED
  BY ServerInvariance, <1>1, PTL

\* The offset check and the queue's order never refuse an upload whose disk works
\* (handleUploadChunk, handleUploadEnd), however uploads and other messages mix.
THEOREM FailsOnlyForCause == Spec => []FailsForCause
<1>1. ServerInv => FailsForCause
  BY DEF ServerInv, UploadInv, CauseInv, FailsForCause
<1> QED
  BY ServerInvariance, <1>1, PTL

\* A closed SRP connection that has come to rest has no listener and no part of a
\* file (cleanupSubscriptions, cleanupUploads), also when it closed while a
\* handler was writing, ending or cancelling.
THEOREM SecureAlwaysClosesClean == Spec => []SecureClosesClean
<1>1. ServerInv => SecureClosesClean
  <2> SUFFICES ASSUME ServerInv, ~open, policy = "srp_required", Quiet
               PROVE  /\ subscriptions = {}
                      /\ \A u \in Uploads : file[u] # None => Len(file[u]) = size[u]
    BY DEF SecureClosesClean
  <2>1. ASSUME NEW u \in Uploads PROVE Kept(u)
    <3>1. cancelling # u /\ ~Left(u) /\ ~Handling(u, "cancel")
      BY ServerConnectionAssumption DEF Quiet, Left, Handling, Idle
    <3> QED
      BY <3>1 DEF ServerInv, UploadInv, ClosedInv, Doomed
  <2> QED
    BY <2>1 DEF ServerInv, ListenersInv, Kept
<1> QED
  BY ServerInvariance, <1>1, PTL
=============================================================================
