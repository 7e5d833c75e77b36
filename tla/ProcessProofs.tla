--------------------------- MODULE ProcessProofs ---------------------------
(***************************************************************************)
(* Theorems about Process, for every set of messages and requests.         *)
(***************************************************************************)
EXTENDS Process, TLAPS

-----------------------------------------------------------------------------
(* Queues of messages and requests                                        *)

\* Removing the element at a position keeps a sequence a sequence.
LEMMA WithoutType ==
  ASSUME NEW S, NEW s \in Seq(S), NEW i \in 1..Len(s)
  PROVE  /\ Without(s, i) \in Seq(S)
         /\ Len(Without(s, i)) = Len(s) - 1
         /\ \A j \in 1..(Len(s) - 1) :
               Without(s, i)[j] = IF j < i THEN s[j] ELSE s[j + 1]
<1>1. Len(s) - 1 \in Nat
  OBVIOUS
<1>2. \A j \in 1..(Len(s) - 1) : (IF j < i THEN s[j] ELSE s[j + 1]) \in S
  OBVIOUS
<1>3. Without(s, i) \in [1..(Len(s) - 1) -> S]
  BY <1>2 DEF Without
<1>4. Without(s, i) \in Seq(S)
  BY <1>1, <1>3
<1>5. Len(Without(s, i)) = Len(s) - 1
  BY <1>1, <1>3, <1>4
<1> QED
  BY <1>4, <1>5 DEF Without

\* The queue filter returns a sequence over the same set.
LEMMA FilterType ==
  ASSUME NEW S, NEW s \in Seq(S), NEW x
  PROVE  Filter(s, x) \in Seq(S)
BY WithoutType DEF Filter

\* On a queue without repetitions the filter removes exactly the given id and
\* introduces no repetition.
LEMMA FilterElements ==
  ASSUME NEW S, NEW s \in Seq(S), NEW x, Distinct(s)
  PROVE  /\ ElementsOf(Filter(s, x)) = ElementsOf(s) \ {x}
         /\ Distinct(Filter(s, x))
<1>1. CASE ~ \E i \in 1..Len(s) : s[i] = x
  BY <1>1 DEF Filter, ElementsOf
<1>2. CASE \E i \in 1..Len(s) : s[i] = x
  <2> DEFINE i == CHOOSE i \in 1..Len(s) : s[i] = x
             t == Without(s, i)
  <2>1. i \in 1..Len(s) /\ s[i] = x
    BY <1>2
  <2>2. Filter(s, x) = t
    BY <1>2 DEF Filter
  <2> HIDE DEF i
  <2>3. /\ t \in Seq(S) /\ Len(t) = Len(s) - 1
        /\ \A j \in 1..(Len(s) - 1) : t[j] = IF j < i THEN s[j] ELSE s[j + 1]
    BY <2>1, WithoutType
  <2> HIDE DEF t
  <2>at. \A j \in 1..Len(t) : \E a \in 1..Len(s) :
             t[j] = s[a] /\ a # i /\ a = IF j < i THEN j ELSE j + 1
    <3> TAKE j \in 1..Len(t)
    <3>1. CASE j < i
      <4>1. j \in 1..Len(s) /\ t[j] = s[j]
        BY <3>1, <2>1, <2>3
      <4> QED
        BY <4>1, <3>1, <2>1
    <3>2. CASE ~(j < i)
      <4>1. j + 1 \in 1..Len(s) /\ t[j] = s[j + 1]
        BY <3>2, <2>1, <2>3
      <4> QED
        BY <4>1, <3>2, <2>1
    <3> QED
      BY <3>1, <3>2
  <2>4. Distinct(t)
    <3> SUFFICES ASSUME NEW j \in 1..Len(t), NEW k \in 1..Len(t), t[j] = t[k]
                 PROVE  j = k
      BY DEF Distinct
    <3>1. PICK a \in 1..Len(s) : t[j] = s[a] /\ a = IF j < i THEN j ELSE j + 1
      BY <2>at
    <3>2. PICK b \in 1..Len(s) : t[k] = s[b] /\ b = IF k < i THEN k ELSE k + 1
      BY <2>at
    <3>3. a = b
      BY <3>1, <3>2 DEF Distinct
    <3> QED
      BY <3>1, <3>2, <3>3, <2>1, <2>3
  <2>5. ASSUME NEW j \in 1..Len(t) PROVE t[j] \in ElementsOf(s) \ {x}
    <3>1. PICK a \in 1..Len(s) : t[j] = s[a] /\ a # i
      BY <2>at
    <3> QED
      BY <3>1, <2>1 DEF Distinct, ElementsOf
  <2>6. ASSUME NEW a \in 1..Len(s), s[a] # x PROVE \E j \in 1..Len(t) : t[j] = s[a]
    <3>1. CASE a < i
      BY <3>1, <2>1, <2>3
    <3>2. CASE a > i
      <4>1. a - 1 \in 1..Len(t) /\ t[a - 1] = s[a]
        BY <3>2, <2>1, <2>3
      <4> QED
        BY <4>1
    <3> QED
      BY <3>1, <3>2, <2>1, <2>6
  <2>7. ElementsOf(t) = ElementsOf(s) \ {x}
    BY <2>5, <2>6 DEF ElementsOf
  <2> QED
    BY <2>2, <2>4, <2>7
<1> QED
  BY <1>1, <1>2

\* Registering a new request at the end of the queue.
LEMMA AppendDistinct ==
  ASSUME NEW S, NEW s \in Seq(S), NEW x \in S, Distinct(s), x \notin ElementsOf(s)
  PROVE  /\ ElementsOf(Append(s, x)) = ElementsOf(s) \cup {x}
         /\ Distinct(Append(s, x))
<1>1. /\ Len(Append(s, x)) = Len(s) + 1
      /\ Append(s, x)[Len(s) + 1] = x
      /\ \A i \in 1..Len(s) : Append(s, x)[i] = s[i]
  OBVIOUS
<1>2. Len(s) \in Nat
  OBVIOUS
<1> DEFINE t == Append(s, x)
<1> HIDE DEF t
<1>3. ASSUME NEW i \in 1..Len(t), NEW j \in 1..Len(t), t[i] = t[j] PROVE i = j
  <2>1. CASE i \in 1..Len(s) /\ j \in 1..Len(s)
    BY <2>1, <1>1, <1>3 DEF Distinct, t
  <2>2. CASE i = Len(s) + 1 /\ j \in 1..Len(s)
    BY <2>2, <1>1, <1>3 DEF ElementsOf, t
  <2>3. CASE i \in 1..Len(s) /\ j = Len(s) + 1
    BY <2>3, <1>1, <1>3 DEF ElementsOf, t
  <2> QED
    BY <2>1, <2>2, <2>3, <1>1, <1>2 DEF t
<1>4. ElementsOf(t) = ElementsOf(s) \cup {x}
  <2>1. ASSUME NEW i \in 1..Len(t) PROVE t[i] \in ElementsOf(s) \cup {x}
    BY <1>1, <1>2 DEF ElementsOf, t
  <2>2. ASSUME NEW i \in 1..Len(s) PROVE \E j \in 1..Len(t) : t[j] = s[i]
    <3>1. i \in 1..Len(t) /\ t[i] = s[i]
      BY <1>1, <1>2 DEF t
    <3> QED
      BY <3>1
  <2>3. \E j \in 1..Len(t) : t[j] = x
    <3>1. Len(s) + 1 \in 1..Len(t) /\ t[Len(s) + 1] = x
      BY <1>1, <1>2 DEF t
    <3> QED
      BY <3>1
  <2>4. ElementsOf(t) \subseteq ElementsOf(s) \cup {x}
    BY <2>1 DEF ElementsOf
  <2>5. ElementsOf(s) \subseteq ElementsOf(t) /\ x \in ElementsOf(t)
    BY <2>2, <2>3 DEF ElementsOf
  <2> QED
    BY <2>4, <2>5
<1> QED
  BY <1>3, <1>4 DEF Distinct, t

\* Taking the head of a queue without repetitions removes exactly that element.
LEMMA TailElements ==
  ASSUME NEW S, NEW s \in Seq(S), Distinct(s), s # <<>>
  PROVE  /\ Tail(s) \in Seq(S) /\ Head(s) \in S
         /\ ElementsOf(Tail(s)) = ElementsOf(s) \ {Head(s)}
         /\ Distinct(Tail(s))
<1>1. /\ Len(s) \in Nat /\ Len(s) > 0 /\ Head(s) = s[1] /\ Head(s) \in S
      /\ Tail(s) \in Seq(S) /\ Len(Tail(s)) = Len(s) - 1
      /\ \A i \in 1..(Len(s) - 1) : Tail(s)[i] = s[i + 1]
  OBVIOUS
<1>2. Distinct(Tail(s))
  BY <1>1 DEF Distinct
<1>3. ASSUME NEW i \in 1..Len(Tail(s)) PROVE Tail(s)[i] \in ElementsOf(s) \ {Head(s)}
  BY <1>1 DEF Distinct, ElementsOf
<1>4. ASSUME NEW i \in 1..Len(s), s[i] # Head(s) PROVE s[i] \in ElementsOf(Tail(s))
  <2>1. i - 1 \in 1..Len(Tail(s)) /\ Tail(s)[i - 1] = s[i]
    BY <1>1, <1>4
  <2> QED
    BY <2>1 DEF ElementsOf
<1>5. ElementsOf(Tail(s)) = ElementsOf(s) \ {Head(s)}
  BY <1>3, <1>4 DEF ElementsOf
<1> QED
  BY <1>1, <1>2, <1>5

\* Two queues in a row hold the elements of both; what repeats nothing and
\* shares nothing repeats nothing in a row either.
LEMMA ConcatElements ==
  ASSUME NEW S, NEW s \in Seq(S), NEW t \in Seq(S)
  PROVE  /\ s \o t \in Seq(S)
         /\ ElementsOf(s \o t) = ElementsOf(s) \cup ElementsOf(t)
         /\ Distinct(s) /\ Distinct(t) /\ ElementsOf(s) \cap ElementsOf(t) = {}
              => Distinct(s \o t)
<1> DEFINE c == s \o t
<1>1. /\ c \in Seq(S) /\ Len(s) \in Nat /\ Len(t) \in Nat /\ Len(c) = Len(s) + Len(t)
      /\ \A i \in 1..Len(c) : c[i] = IF i <= Len(s) THEN s[i] ELSE t[i - Len(s)]
  OBVIOUS
<1> HIDE DEF c
<1>2. ASSUME NEW i \in 1..Len(c)
      PROVE  \/ i \in 1..Len(s) /\ c[i] = s[i]
             \/ i - Len(s) \in 1..Len(t) /\ c[i] = t[i - Len(s)]
  BY <1>1
<1>3. ElementsOf(c) \subseteq ElementsOf(s) \cup ElementsOf(t)
  BY <1>2 DEF ElementsOf
<1>4. ASSUME NEW i \in 1..Len(s) PROVE s[i] \in ElementsOf(c)
  <2>1. i \in 1..Len(c) /\ c[i] = s[i]
    BY <1>1
  <2> QED
    BY <2>1 DEF ElementsOf
<1>5. ASSUME NEW i \in 1..Len(t) PROVE t[i] \in ElementsOf(c)
  <2>1. i + Len(s) \in 1..Len(c) /\ ~(i + Len(s) <= Len(s)) /\ (i + Len(s)) - Len(s) = i
    BY <1>1
  <2>2. c[i + Len(s)] = t[i]
    <3>1. c[i + Len(s)] = IF i + Len(s) <= Len(s) THEN s[i + Len(s)]
                                                  ELSE t[(i + Len(s)) - Len(s)]
      BY <1>1, <2>1
    <3> QED
      BY <3>1, <2>1
  <2> QED
    BY <2>1, <2>2 DEF ElementsOf
<1>6. ElementsOf(c) = ElementsOf(s) \cup ElementsOf(t)
  BY <1>3, <1>4, <1>5 DEF ElementsOf
<1>7. ASSUME Distinct(s), Distinct(t), ElementsOf(s) \cap ElementsOf(t) = {},
             NEW i \in 1..Len(c), NEW j \in 1..Len(c), c[i] = c[j]
      PROVE  i = j
  <2>1. CASE i \in 1..Len(s) /\ c[i] = s[i] /\ j \in 1..Len(s) /\ c[j] = s[j]
    BY <1>7, <2>1 DEF Distinct
  <2>2. CASE /\ i - Len(s) \in 1..Len(t) /\ c[i] = t[i - Len(s)]
             /\ j - Len(s) \in 1..Len(t) /\ c[j] = t[j - Len(s)]
    <3>1. i - Len(s) = j - Len(s)
      BY <1>7, <2>2 DEF Distinct
    <3> QED
      BY <3>1, <1>1
  <2>3. CASE c[i] \in ElementsOf(s) /\ c[j] \in ElementsOf(t)
    BY <1>7, <2>3
  <2>4. CASE c[i] \in ElementsOf(t) /\ c[j] \in ElementsOf(s)
    BY <1>7, <2>4
  <2> QED
    BY <1>2, <2>1, <2>2, <2>3, <2>4 DEF ElementsOf
<1> QED
  BY <1>1, <1>6, <1>7 DEF Distinct, c

-----------------------------------------------------------------------------
(* Type correctness                                                        *)

\* The shared steps keep the variables they assign in their sets.
LEMMA PushType ==
  ASSUME InputTypes, NEW m \in Messages, Push(m)
  PROVE  queue' \in Seq(Messages) /\ received' \in Seq(Messages) /\ waiting' \in BOOLEAN
<1>1. queue \in Seq(Messages) /\ received \in Seq(Messages)
  BY DEF InputTypes
<1>2. queue' \in Seq(Messages)
  BY <1>1 DEF Push
<1>3. received' \in Seq(Messages)
  BY <1>1 DEF Push
<1>4. waiting' \in BOOLEAN
  BY DEF InputTypes, Push
<1> QED
  BY <1>2, <1>3, <1>4

LEMMA QueueMessageType ==
  ASSUME InputTypes, NEW m \in Messages, QueueMessage(m)
  PROVE  InputTypes'
<1>1. CASE UNCHANGED inputVars
  BY <1>1 DEF InputTypes, inputVars
<1>2. CASE steering' = steering \cup {m} /\ UNCHANGED <<queue, waiting, received>>
  BY <1>2 DEF InputTypes
<1>3. CASE Push(m) /\ UNCHANGED steering
  BY <1>3, PushType DEF InputTypes
<1> QED
  BY <1>1, <1>2, <1>3 DEF QueueMessage

LEMMA TransitionToIdleType ==
  ASSUME StatusTypes, MessageTypes, TransitionToIdle
  PROVE  /\ InputTypes' /\ deferredQueue' \in Seq(Messages)
         /\ state' \in States /\ shown' \in Requests \cup {NoRequest}
         /\ idleTimer' \in BOOLEAN
<1>1. CASE /\ deferredQueue # <<>>
           /\ deferredQueue' = Tail(deferredQueue)
           /\ QueueMessage(Head(deferredQueue))
           /\ idleTimer' = FALSE
           /\ IF WakesUp THEN SetState("in-turn", NoRequest)
                         ELSE UNCHANGED <<state, shown>>
  <2>1. Head(deferredQueue) \in Messages /\ deferredQueue' \in Seq(Messages)
    BY <1>1 DEF MessageTypes
  <2>2. InputTypes'
    BY <1>1, <2>1, QueueMessageType DEF MessageTypes
  <2>3. state' \in States /\ shown' \in Requests \cup {NoRequest}
    BY <1>1 DEF StatusTypes, SetState, States
  <2> QED
    BY <1>1, <2>1, <2>2, <2>3
<1>2. CASE /\ deferredQueue = <<>>
           /\ SetState("idle", NoRequest)
           /\ idleTimer' = TRUE
           /\ UNCHANGED <<inputVars, deferredQueue>>
  BY <1>2 DEF StatusTypes, MessageTypes, InputTypes, inputVars, SetState, States
<1> QED
  BY <1>1, <1>2 DEF TransitionToIdle

LEMMA SettleApprovalType ==
  ASSUME ApprovalTypes, NEW r \in Requests, NEW answer \in Outcomes,
         SettleApproval(r, answer)
  PROVE  ApprovalTypes'
BY FilterType DEF ApprovalTypes, SettleApproval

LEMMA EmitNextType ==
  ASSUME ApprovalTypes, NEW r \in Requests,
         EmitNextPendingApproval(Filter(pendingToolApprovalQueue, r))
  PROVE  state' \in States /\ shown' \in Requests \cup {NoRequest}
<1>1. Filter(pendingToolApprovalQueue, r) \in Seq(Requests)
  BY FilterType DEF ApprovalTypes
<1> QED
  BY <1>1 DEF EmitNextPendingApproval, SetState, States

LEMMA MarkTerminatedType ==
  ASSUME ApprovalTypes, MarkTerminated
  PROVE  /\ StatusTypes' /\ ApprovalTypes'
         /\ iteratorDone' \in BOOLEAN /\ exitResolved' \in BOOLEAN
         /\ tracked' \in BOOLEAN
<1>1. ApprovalTypes'
  BY DEF ApprovalTypes, MarkTerminated, DenyPending, Outcomes
<1> QED
  BY <1>1 DEF MarkTerminated, SetState, States, StatusTypes

LEMMA InitType == Init => TypeOK
<1> SUFFICES ASSUME Init PROVE TypeOK
  OBVIOUS
<1>1. queue \in Seq(Messages)
  <2>1. queue = <<>> \/ \E m \in Messages : queue = <<m>>
    BY DEF Init
  <2>2. ASSUME NEW m \in Messages PROVE <<m>> \in Seq(Messages)
    OBVIOUS
  <2>3. <<>> \in Seq(Messages)
    OBVIOUS
  <2> QED
    BY <2>1, <2>2, <2>3
<1>2. fate \in [Messages -> Fates]
  BY DEF Init, Fates
<1>3. /\ deferredQueue = <<>> /\ received = <<>> /\ pendingToolApprovalQueue = <<>>
      /\ waiting \in BOOLEAN /\ steering \subseteq Messages
  BY DEF Init
<1>4. MessageTypes
  BY <1>1, <1>2, <1>3 DEF MessageTypes, InputTypes
<1>5. ApprovalTypes
  <2>1. outcome \in [Requests -> Outcomes] /\ firstPending \subseteq Requests
        /\ pendingToolApprovals \subseteq Requests
    BY DEF Init, Outcomes
  <2> QED
    BY <2>1, <1>3 DEF ApprovalTypes
<1>6. StatusTypes /\ LoopTypes /\ RouteTypes /\ SdkTypes
  BY DEF Init, StatusTypes, LoopTypes, RouteTypes, SdkTypes, States
<1> QED
  BY <1>4, <1>5, <1>6 DEF TypeOK

\* A group of variables that a step leaves alone keeps its types.
LEMMA UnchangedTypes ==
  ASSUME TypeOK
  PROVE  /\ UNCHANGED statusVars => StatusTypes'
         /\ UNCHANGED loopVars => LoopTypes'
         /\ UNCHANGED approvalVars => ApprovalTypes'
         /\ UNCHANGED inputVars => InputTypes'
         /\ UNCHANGED messageVars => MessageTypes'
         /\ UNCHANGED routeVars => RouteTypes'
         /\ UNCHANGED sdkVars => SdkTypes'
<1>1. UNCHANGED inputVars => InputTypes'
  BY DEF TypeOK, MessageTypes, InputTypes, inputVars
<1> QED
  BY <1>1 DEF TypeOK, StatusTypes, LoopTypes, ApprovalTypes, MessageTypes, RouteTypes,
     SdkTypes, statusVars, loopVars, approvalVars, messageVars, routeVars, sdkVars

LEMMA RoutesType == ASSUME TypeOK, Routes PROVE TypeOK'
<1> USE UnchangedTypes
<1>t. StatusTypes /\ LoopTypes /\ ApprovalTypes /\ MessageTypes /\ InputTypes
      /\ RouteTypes /\ SdkTypes
  BY DEF TypeOK, MessageTypes
<1>1. ASSUME NEW m \in Messages, RouteMessage(m) \/ RouteRefuse(m) PROVE TypeOK'
  <2>1. fate' \in [Messages -> Fates]
    BY <1>1, <1>t DEF RouteMessage, RouteRefuse, MessageTypes, Fates
  <2> QED
    BY <1>1, <1>t, <2>1 DEF TypeOK, RouteMessage, RouteRefuse, MessageTypes
<1>2. ASSUME NEW m \in Messages, RouteQueueMessage(m) PROVE TypeOK'
  <2>1. fate' \in [Messages -> Fates]
    BY <1>2, <1>t DEF RouteQueueMessage, MessageTypes, Fates
  <2>2. MessageTypes'
    BY <1>2, <1>t, <2>1, QueueMessageType DEF RouteQueueMessage, MessageTypes
  <2>3. StatusTypes'
    BY <1>2, <1>t DEF RouteQueueMessage, StatusTypes, SetState, States
  <2> QED
    BY <1>2, <1>t, <2>2, <2>3 DEF TypeOK, RouteQueueMessage
<1>3. ASSUME NEW m \in Messages, RouteDeferMessage(m) PROVE TypeOK'
  <2>1. fate' \in [Messages -> Fates] /\ deferredQueue' \in Seq(Messages)
    BY <1>3, <1>t DEF RouteDeferMessage, MessageTypes, Fates
  <2> QED
    BY <1>3, <1>t, <2>1 DEF TypeOK, RouteDeferMessage, MessageTypes
<1>4. ASSUME NEW m \in Messages, CancelDeferredMessage(m) PROVE TypeOK'
  <2>1. fate' \in [Messages -> Fates]
    BY <1>4, <1>t DEF CancelDeferredMessage, MessageTypes, Fates
  <2>2. deferredQueue' \in Seq(Messages)
    BY <1>4, <1>t, FilterType DEF CancelDeferredMessage, MessageTypes
  <2> QED
    BY <1>4, <1>t, <2>1, <2>2 DEF TypeOK, CancelDeferredMessage, MessageTypes
<1>5. ASSUME NEW m \in Messages, NEW steered \in BOOLEAN, SteerSettles(m, steered)
      PROVE  TypeOK'
  <2>1. queue \in Seq(Messages) /\ received \in Seq(Messages)
        /\ waiting \in BOOLEAN /\ steering \subseteq Messages
    BY <1>t DEF InputTypes
  <2>2. steering' \subseteq Messages
    BY <1>5, <2>1 DEF SteerSettles
  <2>3. queue' \in Seq(Messages) /\ received' \in Seq(Messages) /\ waiting' \in BOOLEAN
    <3>1. CASE steered
      BY <1>5, <3>1, <2>1 DEF SteerSettles
    <3>2. CASE ~steered
      BY <1>5, <3>2, <1>t, PushType DEF SteerSettles
    <3> QED
      BY <3>1, <3>2
  <2>4. MessageTypes'
    BY <1>5, <1>t, <2>2, <2>3 DEF SteerSettles, MessageTypes, InputTypes
  <2> QED
    BY <1>5, <1>t, <2>4 DEF TypeOK, SteerSettles
<1>6. ASSUME Hold \/ RouteInput PROVE TypeOK'
  <2>1. StatusTypes' /\ RouteTypes'
    BY <1>6, <1>t DEF Hold, RouteInput, SetState, States, StatusTypes, RouteTypes,
       routeVars, statusVars
  <2> QED
    BY <1>6, <1>t, <2>1 DEF TypeOK, Hold, RouteInput
<1>7. CASE Unhold
  <2>1. LoopTypes'
    BY <1>7, <1>t DEF Unhold, LoopTypes
  <2>2. CASE TransitionToIdle
    BY <1>7, <1>t, <2>1, <2>2, TransitionToIdleType
    DEF TypeOK, Unhold, StatusTypes, MessageTypes
  <2>3. CASE /\ SetState("in-turn", NoRequest)
             /\ UNCHANGED <<idleTimer, inputVars, deferredQueue>>
    BY <1>7, <1>t, <2>1, <2>3 DEF TypeOK, Unhold, SetState, States, StatusTypes, MessageTypes
  <2> QED
    BY <1>7, <2>2, <2>3 DEF Unhold
<1>8. ASSUME NEW r \in Requests, NEW answer \in {"allow", "deny"},
             RespondPending(r, answer)
      PROVE  TypeOK'
  <2>1. answer \in Outcomes
    BY DEF Outcomes
  <2>2. ApprovalTypes'
    BY <1>8, <1>t, <2>1, SettleApprovalType DEF RespondPending
  <2>3. StatusTypes' /\ RouteTypes'
    BY <1>8, <1>t, EmitNextType DEF RespondPending, StatusTypes, RouteTypes
  <2> QED
    BY <1>8, <1>t, <2>2, <2>3 DEF TypeOK, RespondPending
<1>9. ASSUME NEW r \in Requests, NEW m \in Messages, RespondWithFeedback(r, m)
      PROVE  TypeOK'
  <2>1. "deny" \in Outcomes
    BY DEF Outcomes
  <2>2. ApprovalTypes'
    BY <1>9, <1>t, <2>1, SettleApprovalType DEF RespondWithFeedback
  <2>3. idleTimer' \in BOOLEAN
    BY <1>9, Zenon DEF RespondWithFeedback
  <2>4. StatusTypes' /\ RouteTypes'
    BY <1>9, <1>t, <2>3, EmitNextType DEF RespondWithFeedback, StatusTypes, RouteTypes
  <2>5. fate' \in [Messages -> Fates]
    BY <1>9, <1>t DEF RespondWithFeedback, MessageTypes, Fates
  <2>6. MessageTypes'
    BY <1>9, <1>t, <2>5, QueueMessageType DEF RespondWithFeedback, MessageTypes
  <2> QED
    BY <1>9, <1>t, <2>2, <2>4, <2>6 DEF TypeOK, RespondWithFeedback
<1>10. ASSUME NEW r \in Requests, RespondSettled(r) PROVE TypeOK'
  <2>1. StatusTypes' /\ RouteTypes'
    BY <1>10, <1>t DEF RespondSettled, SetState, States, StatusTypes, RouteTypes
  <2> QED
    BY <1>10, <1>t, <2>1 DEF TypeOK, RespondSettled
<1>11. CASE Terminate
  <2>1. LoopTypes' /\ RouteTypes' /\ SdkTypes'
    BY <1>11, <1>t, MarkTerminatedType DEF Terminate, LoopTypes, RouteTypes, SdkTypes
  <2> QED
    BY <1>11, <1>t, <2>1, MarkTerminatedType DEF TypeOK, Terminate
<1>12. CASE Abort
  <2>1. StatusTypes' /\ RouteTypes' /\ SdkTypes'
    BY <1>12, <1>t DEF Abort, StatusTypes, RouteTypes, SdkTypes
  <2> QED
    BY <1>12, <1>t, <2>1 DEF TypeOK, Abort
<1>13. CASE AbortReturns \/ IdleTimerFires
  <2>1. StatusTypes' /\ RouteTypes'
    BY <1>13, <1>t DEF AbortReturns, IdleTimerFires, StatusTypes, RouteTypes, statusVars
  <2> QED
    BY <1>13, <1>t, <2>1 DEF TypeOK, AbortReturns, IdleTimerFires
<1> QED
  BY <1>1, <1>2, <1>3, <1>4, <1>5, <1>6, <1>7, <1>8, <1>9, <1>10, <1>11, <1>12, <1>13
  DEF Routes

LEMMA SdkType == ASSUME TypeOK, Sdk PROVE TypeOK'
<1> USE UnchangedTypes
<1>t. StatusTypes /\ LoopTypes /\ ApprovalTypes /\ MessageTypes /\ InputTypes
      /\ RouteTypes /\ SdkTypes
  BY DEF TypeOK, MessageTypes
<1>1. CASE SdkNext
  <2>1. queue \in Seq(Messages) /\ received \in Seq(Messages)
        /\ waiting \in BOOLEAN /\ steering \subseteq Messages
    BY <1>t DEF InputTypes
  <2>2. waiting' \in BOOLEAN /\ steering' \subseteq Messages
    BY <1>1, <2>1 DEF SdkNext
  <2>3. queue' \in Seq(Messages) /\ received' \in Seq(Messages)
    <3>1. CASE queue # <<>>
      <4>1. Head(queue) \in Messages /\ Tail(queue) \in Seq(Messages)
        BY <2>1, <3>1
      <4>2. queue' = Tail(queue) /\ received' = Append(received, Head(queue))
        BY <1>1, <3>1 DEF SdkNext
      <4>3. Append(received, Head(queue)) \in Seq(Messages)
        BY <2>1, <4>1
      <4> QED
        BY <4>1, <4>2, <4>3
    <3>2. CASE queue = <<>>
      BY <1>1, <2>1, <3>2 DEF SdkNext
    <3> QED
      BY <3>1, <3>2
  <2>4. MessageTypes'
    BY <1>1, <1>t, <2>2, <2>3 DEF SdkNext, MessageTypes, InputTypes
  <2> QED
    BY <1>1, <1>t, <2>4 DEF TypeOK, SdkNext
<1>2. CASE SdkResult
  <2>1. SdkTypes'
    BY <1>2, <1>t DEF SdkResult, SdkTypes
  <2> QED
    BY <1>2, <1>t, <2>1 DEF TypeOK, SdkResult
<1>3. ASSUME NEW r \in Requests, HandleToolApproval(r) PROVE TypeOK'
  <2>1. ApprovalTypes'
    BY <1>3, <1>t DEF HandleToolApproval, ApprovalTypes, Outcomes
  <2>2. StatusTypes'
    BY <1>3, <1>t DEF HandleToolApproval, StatusTypes, SetState, States
  <2> QED
    BY <1>3, <1>t, <2>1, <2>2 DEF TypeOK, HandleToolApproval
<1>4. ASSUME NEW r \in Requests, OnAbort(r) PROVE TypeOK'
  <2>1. "deny" \in Outcomes
    BY DEF Outcomes
  <2>2. ApprovalTypes'
    BY <1>4, <1>t, <2>1, SettleApprovalType DEF OnAbort
  <2>3. StatusTypes'
    BY <1>4, <1>t, EmitNextType DEF OnAbort, StatusTypes
  <2> QED
    BY <1>4, <1>t, <2>2, <2>3 DEF TypeOK, OnAbort
<1>5. ASSUME NEW how \in {"ended", "crashed", "errored"}, SdkExit(how) PROVE TypeOK'
  <2>1. SdkTypes'
    BY <1>5, <1>t DEF SdkExit, SdkTypes
  <2> QED
    BY <1>5, <1>t, <2>1 DEF TypeOK, SdkExit
<1> QED
  BY <1>1, <1>2, <1>3, <1>4, <1>5 DEF Sdk

LEMMA LoopType == ASSUME TypeOK, Loop PROVE TypeOK'
<1> USE UnchangedTypes
<1>t. StatusTypes /\ LoopTypes /\ ApprovalTypes /\ MessageTypes /\ InputTypes
      /\ RouteTypes /\ SdkTypes
  BY DEF TypeOK, MessageTypes
<1>1. CASE LoopResult
  <2>1. exitResolved' \in BOOLEAN
    BY <1>1, Zenon DEF LoopResult
  <2>2. LoopTypes'
    BY <1>1, <1>t, <2>1 DEF LoopResult, LoopTypes
  <2>3. SdkTypes'
    BY <1>1, <1>t DEF LoopResult, HandOutResult, SdkTypes
  <2> QED
    BY <1>1, <1>t, <2>2, <2>3, TransitionToIdleType
    DEF TypeOK, LoopResult, StatusTypes, MessageTypes
<1>2. CASE LoopEnds
  <2>1. iteratorDone' \in BOOLEAN
    BY <1>2, Zenon DEF LoopEnds
  <2>2. LoopTypes'
    BY <1>2, <1>t, <2>1 DEF LoopEnds, LoopTypes
  <2>3. CASE TransitionToIdle
    BY <1>2, <1>t, <2>2, <2>3, TransitionToIdleType
    DEF TypeOK, LoopEnds, StatusTypes, MessageTypes
  <2>4. CASE UNCHANGED <<state, shown, idleTimer, inputVars, deferredQueue>>
    BY <1>2, <1>t, <2>2, <2>4 DEF TypeOK, LoopEnds, StatusTypes, MessageTypes
  <2> QED
    BY <1>2, <2>3, <2>4 DEF LoopEnds
<1>3. CASE LoopFails
  <2>1. CASE MarkTerminated
    <3>1. LoopTypes' /\ RouteTypes'
      BY <1>3, <1>t, <2>1, MarkTerminatedType DEF LoopFails, LoopTypes, RouteTypes
    <3> QED
      BY <1>3, <1>t, <2>1, <3>1, MarkTerminatedType DEF TypeOK, LoopFails
  <2>2. CASE /\ exitResolved' = TRUE
             /\ UNCHANGED <<statusVars, approvalVars, tracked, iteratorDone>>
    <3>1. LoopTypes' /\ RouteTypes'
      BY <1>3, <1>t, <2>2 DEF LoopFails, LoopTypes, RouteTypes
    <3> QED
      BY <1>3, <1>t, <2>2, <3>1 DEF TypeOK, LoopFails
  <2> QED
    BY <1>3, <2>1, <2>2 DEF LoopFails
<1>4. CASE LoopResumes
  <2>1. LoopTypes'
    BY <1>4, <1>t DEF LoopResumes, LoopTypes
  <2> QED
    BY <1>4, <1>t, <2>1 DEF TypeOK, LoopResumes
<1> QED
  BY <1>1, <1>2, <1>3, <1>4 DEF Loop

\* Every variable keeps its type, whatever the interleaving.
THEOREM TypeCorrect == Spec => []TypeOK
<1>1. TypeOK /\ [Next]_vars => TypeOK'
  BY RoutesType, SdkType, LoopType, UnchangedTypes DEF Next, TypeOK, vars
<1> QED
  BY InitType, <1>1, PTL DEF Spec

-----------------------------------------------------------------------------
(* Pending approvals                                                       *)

\* The promise outcomes, the map and the queue agree and no id is queued
\* twice: the part of ApprovalsConsistent without quantified indices.
LEMMA ApprovalsAlt ==
  ApprovalsConsistent <=>
    /\ ElementsOf(pendingToolApprovalQueue) = pendingToolApprovals
    /\ Distinct(pendingToolApprovalQueue)
    /\ \A r \in Requests : outcome[r] = "pending" <=> r \in pendingToolApprovals
BY DEF ApprovalsConsistent, Distinct

\* An answered or aborted request leaves map, queue and outcome together.
LEMMA SettleConsistent ==
  ASSUME TypeOK, ApprovalsConsistent,
         NEW r \in Requests, NEW answer \in {"allow", "deny"}, SettleApproval(r, answer)
  PROVE  ApprovalsConsistent'
<1>1. pendingToolApprovalQueue \in Seq(Requests) /\ outcome \in [Requests -> Outcomes]
  BY DEF TypeOK, ApprovalTypes
<1>2. /\ ElementsOf(pendingToolApprovalQueue') = pendingToolApprovals'
      /\ Distinct(pendingToolApprovalQueue')
  BY <1>1, FilterElements, ApprovalsAlt DEF SettleApproval
<1>3. \A q \in Requests : outcome'[q] = "pending" <=> q \in pendingToolApprovals'
  BY <1>1, ApprovalsAlt DEF SettleApproval
<1> QED
  BY <1>2, <1>3 DEF ApprovalsConsistent, Distinct

\* Termination answers every pending request.
LEMMA DenyConsistent ==
  ASSUME TypeOK, ApprovalsConsistent, DenyPending
  PROVE  ApprovalsConsistent'
<1>1. ElementsOf(<<>>) = {} /\ Len(<<>>) = 0
  BY DEF ElementsOf
<1>2. \A q \in Requests : outcome'[q] # "pending"
  BY DEF ApprovalsConsistent, DenyPending
<1> QED
  BY <1>1, <1>2 DEF ApprovalsConsistent, DenyPending

\* The steps that touch the approvals, on the variables they change.
LEMMA ApprovalSteps ==
  ASSUME TypeOK, [Next]_vars
  PROVE  \/ UNCHANGED approvalVars
         \/ \E r \in Requests : \E a \in {"allow", "deny"} :
               r \in pendingToolApprovals /\ SettleApproval(r, a)
         \/ DenyPending
         \/ \E r \in Requests : HandleToolApproval(r)
<1>1. CASE UNCHANGED vars
  BY <1>1 DEF vars
<1>2. CASE Routes
  BY <1>2 DEF Routes, RouteMessage, RouteRefuse, RouteQueueMessage, RouteDeferMessage,
     CancelDeferredMessage, SteerSettles, Hold, Unhold, RouteInput, RespondPending,
     RespondWithFeedback, RespondSettled, Terminate, MarkTerminated, Abort, AbortReturns,
     IdleTimerFires
<1>3. CASE Sdk
  BY <1>3 DEF Sdk, SdkNext, SdkResult, OnAbort, SdkExit
<1>4. CASE Loop
  BY <1>4 DEF Loop, LoopResult, LoopEnds, LoopFails, MarkTerminated, LoopResumes
<1> QED
  BY <1>1, <1>2, <1>3, <1>4 DEF Next

\* No approval promise is ever forgotten, for any number of requests.
THEOREM ApprovalsAlwaysConsistent == Spec => []ApprovalsConsistent
<1>1. Init => ApprovalsConsistent
  <2> SUFFICES ASSUME Init PROVE ApprovalsConsistent
    OBVIOUS
  <2>1. ElementsOf(<<>>) = {} /\ Len(<<>>) = 0
    BY DEF ElementsOf
  <2>2. /\ pendingToolApprovals = {} /\ pendingToolApprovalQueue = <<>>
        /\ outcome = [r \in Requests |-> "none"]
    BY DEF Init
  <2> QED
    BY <2>1, <2>2 DEF ApprovalsConsistent
<1>2. TypeOK /\ ApprovalsConsistent /\ [Next]_vars => ApprovalsConsistent'
  <2> SUFFICES ASSUME TypeOK, ApprovalsConsistent, [Next]_vars
               PROVE  ApprovalsConsistent'
    OBVIOUS
  <2>1. CASE UNCHANGED approvalVars
    BY <2>1 DEF approvalVars, ApprovalsConsistent
  <2>2. CASE \E r \in Requests : HandleToolApproval(r)
    <3>1. PICK r \in Requests : HandleToolApproval(r)
      BY <2>2
    <3>2. pendingToolApprovalQueue \in Seq(Requests) /\ outcome \in [Requests -> Outcomes]
      BY DEF TypeOK, ApprovalTypes
    <3>3. r \notin ElementsOf(pendingToolApprovalQueue)
      BY <3>1, ApprovalsAlt DEF HandleToolApproval
    <3>4. /\ ElementsOf(pendingToolApprovalQueue') = pendingToolApprovals'
          /\ Distinct(pendingToolApprovalQueue')
      BY <3>1, <3>2, <3>3, AppendDistinct, ApprovalsAlt DEF HandleToolApproval
    <3>5. \A q \in Requests : outcome'[q] = "pending" <=> q \in pendingToolApprovals'
      BY <3>1, <3>2, ApprovalsAlt DEF HandleToolApproval
    <3> QED
      BY <3>4, <3>5 DEF ApprovalsConsistent, Distinct
  <2> QED
    BY <2>1, <2>2, ApprovalSteps, SettleConsistent, DenyConsistent
<1> QED
  BY <1>1, <1>2, TypeCorrect, PTL DEF Spec

\* No approval promise is resolved twice.
THEOREM ApprovalsSettleOnce == Spec => SettledOnce
<1>1. TypeOK /\ ApprovalsConsistent /\ [Next]_vars
        => [\A r \in Requests :
              outcome[r] \in {"allow", "deny"} => outcome'[r] = outcome[r]]_vars
  <2> SUFFICES ASSUME TypeOK, ApprovalsConsistent, [Next]_vars,
                      NEW q \in Requests, outcome[q] \in {"allow", "deny"}
               PROVE  outcome'[q] = outcome[q]
    OBVIOUS
  <2>1. outcome \in [Requests -> Outcomes] /\ q \notin pendingToolApprovals
    BY DEF TypeOK, ApprovalTypes, ApprovalsConsistent
  <2>2. CASE UNCHANGED approvalVars
    BY <2>2 DEF approvalVars
  <2>3. CASE \E r \in Requests : \E a \in {"allow", "deny"} :
               r \in pendingToolApprovals /\ SettleApproval(r, a)
    BY <2>1, <2>3 DEF SettleApproval
  <2>4. CASE DenyPending
    BY <2>1, <2>4 DEF DenyPending
  <2>5. CASE \E r \in Requests : HandleToolApproval(r)
    BY <2>1, <2>5 DEF HandleToolApproval
  <2> QED
    BY <2>2, <2>3, <2>4, <2>5, ApprovalSteps
<1> QED
  BY <1>1, TypeCorrect, ApprovalsAlwaysConsistent, PTL DEF Spec, SettledOnce

\* Termination denies what is pending and leaves nothing pending.
THEOREM TerminationAlwaysDenies == Spec => TerminationDenies
<1>1. TypeOK /\ [Next]_vars
        => [state # "terminated" /\ state' = "terminated"
              => /\ pendingToolApprovals' = {}
                 /\ \A r \in pendingToolApprovals : outcome'[r] = "deny"]_vars
  <2> SUFFICES ASSUME TypeOK, [Next]_vars, state # "terminated", state' = "terminated"
               PROVE  /\ pendingToolApprovals' = {}
                      /\ \A r \in pendingToolApprovals : outcome'[r] = "deny"
    OBVIOUS
  <2>1. ASSUME TransitionToIdle PROVE FALSE
    BY <2>1 DEF TransitionToIdle, SetState
  <2>2. ASSUME NEW left, EmitNextPendingApproval(left) PROVE FALSE
    BY <2>2 DEF EmitNextPendingApproval, SetState
  <2>3. ~ UNCHANGED vars
    BY DEF vars, statusVars
  <2>4. ~ Sdk
    BY <2>2 DEF Sdk, SdkNext, SdkResult, HandleToolApproval, OnAbort, SdkExit, SetState,
       statusVars
  <2>5. Routes => MarkTerminated
    BY <2>1, <2>2 DEF Routes, RouteMessage, RouteRefuse, RouteQueueMessage,
       RouteDeferMessage, CancelDeferredMessage, SteerSettles, Hold, Unhold, RouteInput,
       RespondPending, RespondWithFeedback, RespondSettled, Terminate, Abort, AbortReturns,
       IdleTimerFires, SetState, statusVars
  <2>6. Loop => MarkTerminated
    BY <2>1 DEF Loop, LoopResult, LoopEnds, LoopFails, LoopResumes, SetState, statusVars
  <2>7. MarkTerminated
    BY <2>3, <2>4, <2>5, <2>6 DEF Next
  <2> QED
    BY <2>7 DEF MarkTerminated, DenyPending, TypeOK, ApprovalTypes
<1> QED
  BY <1>1, TypeCorrect, PTL DEF Spec, TerminationDenies

-----------------------------------------------------------------------------
(* Messages and termination                                                *)

\* A generator that waits has an empty queue in front of it.
THEOREM WaitingAlwaysMeansEmpty == Spec => []WaitingMeansEmpty
<1>1. Init => WaitingMeansEmpty
  BY DEF Init, WaitingMeansEmpty
<1>2. WaitingMeansEmpty /\ [Next]_vars => WaitingMeansEmpty'
  <2> SUFFICES ASSUME WaitingMeansEmpty, [Next]_vars PROVE WaitingMeansEmpty'
    OBVIOUS
  <2> DEFINE Kept == UNCHANGED <<queue, waiting>>
  <2>1. Kept => WaitingMeansEmpty'
    BY DEF WaitingMeansEmpty
  <2>2. ASSUME NEW m, Push(m) PROVE WaitingMeansEmpty'
    BY <2>2 DEF Push, WaitingMeansEmpty
  <2>3. ASSUME NEW m, QueueMessage(m) PROVE WaitingMeansEmpty'
    BY <2>1, <2>2, <2>3 DEF QueueMessage, inputVars
  <2>4. ASSUME TransitionToIdle PROVE WaitingMeansEmpty'
    BY <2>1, <2>3, <2>4 DEF TransitionToIdle, inputVars
  <2>5. CASE SdkNext
    BY <2>5 DEF SdkNext, WaitingMeansEmpty
  <2>6. CASE Sdk /\ ~SdkNext
    BY <2>1, <2>6 DEF Sdk, SdkResult, HandleToolApproval, OnAbort, SdkExit, messageVars,
       inputVars
  <2>7. CASE Routes
    BY <2>1, <2>2, <2>3, <2>4, <2>7 DEF Routes, RouteMessage, RouteRefuse,
       RouteQueueMessage, RouteDeferMessage, CancelDeferredMessage, SteerSettles, Hold,
       Unhold, RouteInput, RespondPending, RespondWithFeedback, RespondSettled, Terminate,
       Abort, AbortReturns, IdleTimerFires, messageVars, inputVars
  <2>8. CASE Loop
    BY <2>1, <2>4, <2>8 DEF Loop, LoopResult, LoopEnds, LoopFails, LoopResumes,
       messageVars, inputVars
  <2>9. CASE UNCHANGED vars
    BY <2>1, <2>9 DEF vars, messageVars, inputVars
  <2> QED
    BY <2>5, <2>6, <2>7, <2>8, <2>9 DEF Next
<1> QED
  BY <1>1, <1>2, PTL DEF Spec

-----------------------------------------------------------------------------
(* Messages on their way                                                   *)

\* Every message the process holds, has handed on, or is steering.
Held == ElementsOf(queue) \cup ElementsOf(received)
Placed == ElementsOf(deferredQueue) \cup steering \cup Held

\* The queue and what the generator has yielded share nothing.
LineApart ==
    /\ Distinct(queue) /\ Distinct(received)
    /\ ElementsOf(queue) \cap ElementsOf(received) = {}

InputApart == LineApart /\ steering \cap Held = {}

Apart ==
    /\ InputApart
    /\ Distinct(deferredQueue)
    /\ ElementsOf(deferredQueue) \cap (steering \cup Held) = {}

\* Every place holds messages the server accepted, none of them twice; it drops
\* one only after the iterator is done, as it is when the process refuses messages.
KeptInv ==
    /\ Apart
    /\ \A m \in Placed : fate[m] = "accepted"
    /\ \A m \in Messages : fate[m] = "accepted" => m \in Placed \/ iteratorDone
    /\ RefusesMessages => iteratorDone


\* A message pushed from nowhere is in the line once.
LEMMA PushApart ==
  ASSUME InputTypes, LineApart, NEW m \in Messages, m \notin Held, Push(m)
  PROVE  LineApart' /\ Held' = Held \cup {m}
<1>t. queue \in Seq(Messages) /\ received \in Seq(Messages)
  BY DEF InputTypes
<1>1. CASE received' = Append(received, m) /\ UNCHANGED queue
  BY <1>t, <1>1, AppendDistinct DEF LineApart, Held
<1>2. CASE queue' = Append(queue, m) /\ UNCHANGED received
  BY <1>t, <1>2, AppendDistinct DEF LineApart, Held
<1> QED
  BY <1>1, <1>2 DEF Push

\* queueMessage puts a message in one place, or, refusing it, in none.
LEMMA QueueMessageApart ==
  ASSUME InputTypes, InputApart, NEW m \in Messages, m \notin steering \cup Held,
         QueueMessage(m)
  PROVE  /\ InputApart'
         /\ steering' \cup Held' =
              IF RefusesMessages THEN steering \cup Held ELSE steering \cup Held \cup {m}
<1>1. CASE RefusesMessages
  BY <1>1 DEF QueueMessage, inputVars, InputApart, LineApart, Held
<1>2. CASE ~RefusesMessages /\ state = "in-turn" /\ Steers
  BY <1>2 DEF QueueMessage, InputApart, LineApart, Held
<1>3. CASE ~RefusesMessages /\ ~(state = "in-turn" /\ Steers)
  <2>1. Push(m) /\ steering' = steering
    BY <1>3 DEF QueueMessage
  <2> QED
    BY <1>3, <2>1, PushApart DEF InputApart
<1> QED
  BY <1>1, <1>2, <1>3

\* The end of a turn moves the first deferred message, or drops it when the
\* process refuses messages.
LEMMA TransitionApart ==
  ASSUME MessageTypes, Apart, TransitionToIdle
  PROVE  Apart' /\ Placed' \subseteq Placed /\ (RefusesMessages \/ Placed' = Placed)
<1>1. CASE /\ deferredQueue # <<>>
           /\ deferredQueue' = Tail(deferredQueue)
           /\ QueueMessage(Head(deferredQueue))
  <2> DEFINE m == Head(deferredQueue)
  <2>1. deferredQueue \in Seq(Messages) /\ Distinct(deferredQueue)
    BY DEF MessageTypes, Apart
  <2>2. /\ m \in Messages
        /\ ElementsOf(deferredQueue') = ElementsOf(deferredQueue) \ {m}
        /\ Distinct(deferredQueue')
    BY <1>1, <2>1, TailElements
  <2>3. m \in ElementsOf(deferredQueue)
    BY <1>1, <2>1 DEF ElementsOf
  <2>4. QueueMessage(m)
    BY <1>1
  <2> HIDE DEF m
  <2>5. m \notin steering \cup Held
    BY <2>3 DEF Apart
  <2>6. /\ InputApart'
        /\ steering' \cup Held' =
             IF RefusesMessages THEN steering \cup Held ELSE steering \cup Held \cup {m}
    BY <2>2, <2>4, <2>5, QueueMessageApart DEF MessageTypes, Apart
  <2>7. ElementsOf(deferredQueue') \cap (steering' \cup Held') = {}
    BY <2>2, <2>6 DEF Apart
  <2>8. Apart'
    BY <2>2, <2>6, <2>7 DEF Apart
  <2> QED
    BY <2>2, <2>3, <2>6, <2>8 DEF Placed
<1>2. CASE UNCHANGED <<inputVars, deferredQueue>>
  BY <1>2 DEF inputVars, Apart, InputApart, LineApart, Held, Placed
<1> QED
  BY <1>1, <1>2 DEF TransitionToIdle

\* A message appended to the deferred queue is in that place alone.
LEMMA DeferApart ==
  ASSUME MessageTypes, Apart, NEW m \in Messages, m \notin Placed,
         deferredQueue' = Append(deferredQueue, m), UNCHANGED inputVars
  PROVE  Apart' /\ Placed' = Placed \cup {m}
<1>1. /\ ElementsOf(deferredQueue') = ElementsOf(deferredQueue) \cup {m}
      /\ Distinct(deferredQueue')
  BY AppendDistinct DEF MessageTypes, Apart, Placed
<1> QED
  BY <1>1 DEF Apart, InputApart, LineApart, Held, Placed, inputVars

\* A cancelled message leaves the deferred queue and is nowhere else.
LEMMA CancelApart ==
  ASSUME MessageTypes, Apart, NEW m \in ElementsOf(deferredQueue),
         deferredQueue' = Filter(deferredQueue, m), UNCHANGED inputVars
  PROVE  Apart' /\ Placed' = Placed \ {m}
<1>1. /\ ElementsOf(deferredQueue') = ElementsOf(deferredQueue) \ {m}
      /\ Distinct(deferredQueue')
  BY FilterElements DEF MessageTypes, Apart
<1> QED
  BY <1>1 DEF Apart, InputApart, LineApart, Held, Placed, inputVars

\* A steered message moves to the agent or to the queue.
LEMMA SteerApart ==
  ASSUME MessageTypes, Apart, NEW m \in Messages, NEW steered \in BOOLEAN,
         SteerSettles(m, steered)
  PROVE  Apart' /\ Placed' = Placed
<1>1. m \in steering /\ steering' = steering \ {m} /\ deferredQueue' = deferredQueue
  BY DEF SteerSettles
<1>2. m \notin Held /\ queue \in Seq(Messages) /\ received \in Seq(Messages)
  BY <1>1 DEF Apart, InputApart, MessageTypes, InputTypes
<1>3. LineApart' /\ Held' = Held \cup {m}
  <2>1. CASE steered
    <3>1. received' = Append(received, m) /\ queue' = queue
      BY <2>1 DEF SteerSettles
    <3> QED
      BY <1>2, <3>1, AppendDistinct DEF Apart, InputApart, LineApart, Held
  <2>2. CASE ~steered
    <3>1. Push(m)
      BY <2>2 DEF SteerSettles
    <3> QED
      BY <1>2, <3>1, PushApart DEF Apart, InputApart, MessageTypes
  <2> QED
    BY <2>1, <2>2
<1>4. ElementsOf(deferredQueue') = ElementsOf(deferredQueue)
      /\ (Distinct(deferredQueue) => Distinct(deferredQueue'))
  BY <1>1
<1> QED
  BY <1>1, <1>3, <1>4 DEF Apart, InputApart, Placed

\* The generator yields the first message of the queue.
LEMMA NextApart ==
  ASSUME MessageTypes, Apart, SdkNext
  PROVE  Apart' /\ Placed' = Placed
<1>t. queue \in Seq(Messages) /\ received \in Seq(Messages)
  BY DEF MessageTypes, InputTypes
<1>1. steering' = steering /\ deferredQueue' = deferredQueue
  BY DEF SdkNext
<1>2. CASE UNCHANGED <<queue, received>>
  BY <1>1, <1>2 DEF Apart, InputApart, LineApart, Held, Placed
<1>3. CASE queue # <<>> /\ queue' = Tail(queue) /\ received' = Append(received, Head(queue))
  <2>1. /\ Head(queue) \in Messages /\ Distinct(queue')
        /\ ElementsOf(queue') = ElementsOf(queue) \ {Head(queue)}
    BY <1>t, <1>3, TailElements DEF Apart, InputApart, LineApart
  <2>2. Head(queue) \in ElementsOf(queue)
    BY <1>t, <1>3 DEF ElementsOf
  <2>3. Head(queue) \notin ElementsOf(received)
    BY <2>2 DEF Apart, InputApart, LineApart
  <2>4. Distinct(received') /\ ElementsOf(received') = ElementsOf(received) \cup {Head(queue)}
    BY <1>t, <1>3, <2>1, <2>3, AppendDistinct DEF Apart, InputApart, LineApart
  <2>5. LineApart' /\ Held' = Held
    BY <2>1, <2>2, <2>3, <2>4 DEF Apart, InputApart, LineApart, Held
  <2> QED
    BY <1>1, <2>5 DEF Apart, InputApart, Placed
<1> QED
  BY <1>2, <1>3 DEF SdkNext

\* The steps that touch the messages, on the variables they change.
LEMMA MessageSteps ==
  ASSUME TypeOK, Apart, [Next]_vars
  PROVE  \/ UNCHANGED messageVars
         \/ \E m \in Messages :
              \/ RouteMessage(m) \/ RouteRefuse(m) \/ RouteQueueMessage(m)
              \/ RouteDeferMessage(m) \/ CancelDeferredMessage(m)
              \/ \E steered \in BOOLEAN : SteerSettles(m, steered)
              \/ \E r \in Requests : RespondWithFeedback(r, m)
         \/ SdkNext
         \/ TransitionToIdle /\ UNCHANGED fate
<1>1. CASE UNCHANGED vars
  BY <1>1 DEF vars
<1>2. CASE Routes
  BY <1>2 DEF Routes, Hold, Unhold, RouteInput, RespondPending, RespondSettled, Terminate,
     Abort, AbortReturns, IdleTimerFires, messageVars
<1>3. CASE Sdk
  BY <1>3 DEF Sdk, SdkResult, HandleToolApproval, OnAbort, SdkExit
<1>4. CASE Loop
  BY <1>4 DEF Loop, LoopResult, LoopEnds, LoopFails, LoopResumes, messageVars
<1> QED
  BY <1>1, <1>2, <1>3, <1>4 DEF Next

\* A process that refuses messages has a finished iterator, and a finished
\* iterator stays finished.
LEMMA DoneKept ==
  ASSUME TypeOK, RefusesMessages => iteratorDone, [Next]_vars
  PROVE  (iteratorDone => iteratorDone') /\ (RefusesMessages' => iteratorDone')
<1> DEFINE Keeps == iteratorDone' = iteratorDone /\ transportFailed' = transportFailed
<1>1. ASSUME NEW left, EmitNextPendingApproval(left) PROVE state' # "terminated"
  BY <1>1 DEF EmitNextPendingApproval, SetState
<1>2. ASSUME TransitionToIdle PROVE state' # "terminated" \/ state' = state
  BY <1>2 DEF TransitionToIdle, SetState
<1>3. CASE UNCHANGED vars
  BY <1>3 DEF vars, loopVars, statusVars, RefusesMessages
<1>4. CASE Sdk
  BY <1>1, <1>4 DEF Sdk, SdkNext, SdkResult, HandleToolApproval, OnAbort, SdkExit, SetState,
     statusVars, loopVars, RefusesMessages
<1>5. CASE Routes
  BY <1>1, <1>2, <1>5 DEF Routes, RouteMessage, RouteRefuse, RouteQueueMessage,
     RouteDeferMessage, CancelDeferredMessage, SteerSettles, Hold, Unhold, RouteInput,
     RespondPending, RespondWithFeedback, RespondSettled, Terminate, MarkTerminated, Abort,
     AbortReturns, IdleTimerFires, SetState, statusVars, loopVars, RefusesMessages
<1>6. CASE Loop
  <2>1. CASE LoopResult
    BY <1>2, <2>1 DEF LoopResult, RefusesMessages
  <2>2. CASE LoopEnds
    BY <1>2, <2>2 DEF LoopEnds, RefusesMessages
  <2>3. CASE LoopFails
    BY <2>3 DEF LoopFails, MarkTerminated, SetState, statusVars, RefusesMessages
  <2>4. CASE LoopResumes
    BY <2>4 DEF LoopResumes, statusVars, RefusesMessages
  <2> QED
    BY <1>6, <2>1, <2>2, <2>3, <2>4 DEF Loop
<1> QED
  BY <1>3, <1>4, <1>5, <1>6 DEF Next

LEMMA KeptInit == Init => KeptInv
<1> SUFFICES ASSUME Init PROVE KeptInv
  OBVIOUS
<1>1. ElementsOf(<<>>) = {} /\ Distinct(<<>>)
  BY DEF ElementsOf, Distinct
<1>2. ASSUME NEW m \in Messages PROVE ElementsOf(<<m>>) = {m} /\ Distinct(<<m>>)
  BY DEF ElementsOf, Distinct
<1>3. deferredQueue = <<>> /\ received = <<>> /\ steering = {} /\ ~RefusesMessages
  BY DEF Init, RefusesMessages
<1>4. CASE queue = <<>> /\ fate = [m \in Messages |-> "unsent"]
  BY <1>1, <1>3, <1>4 DEF KeptInv, Apart, InputApart, LineApart, Held, Placed
<1>5. ASSUME NEW m \in Messages, queue = <<m>>,
             fate = [[n \in Messages |-> "unsent"] EXCEPT ![m] = "accepted"]
      PROVE  KeptInv
  <2>1. Placed = {m} /\ Apart
    BY <1>1, <1>2, <1>3, <1>5 DEF Apart, InputApart, LineApart, Held, Placed
  <2> QED
    BY <1>3, <1>5, <2>1 DEF KeptInv
<1> QED
  BY <1>4, <1>5 DEF Init

LEMMA KeptStep == TypeOK /\ KeptInv /\ [Next]_vars => KeptInv'
<1> SUFFICES ASSUME TypeOK, KeptInv, [Next]_vars PROVE KeptInv'
  OBVIOUS
<1>t. MessageTypes /\ InputTypes /\ fate \in [Messages -> Fates] /\ Apart
  BY DEF TypeOK, MessageTypes, KeptInv
<1>d. (iteratorDone => iteratorDone') /\ (RefusesMessages' => iteratorDone')
  BY DoneKept DEF KeptInv
<1>k. /\ \A m \in Placed : fate[m] = "accepted"
      /\ \A m \in Messages : fate[m] = "accepted" => m \in Placed \/ iteratorDone
      /\ RefusesMessages => iteratorDone
  BY DEF KeptInv
<1>0. ASSUME Apart', Placed' \subseteq Placed, RefusesMessages \/ Placed' = Placed,
             \A m \in Messages : fate'[m] = "accepted" <=> fate[m] = "accepted",
             Placed \subseteq Messages
      PROVE  KeptInv'
  BY <1>0, <1>d, <1>k DEF KeptInv
<1>p. Placed \subseteq Messages
  BY <1>t DEF Placed, Held, MessageTypes, InputTypes, ElementsOf
<1>1. CASE UNCHANGED messageVars
  BY <1>1, <1>0, <1>p, <1>t
  DEF messageVars, inputVars, Apart, InputApart, LineApart, Held, Placed
<1>2. ASSUME NEW m \in Messages, RouteMessage(m) \/ RouteRefuse(m) PROVE KeptInv'
  <2>1. Apart' /\ Placed' = Placed
    BY <1>2, <1>t DEF RouteMessage, RouteRefuse, inputVars, Apart, InputApart, LineApart,
       Held, Placed
  <2>2. \A n \in Messages : fate'[n] = "accepted" <=> fate[n] = "accepted"
    BY <1>2, <1>t DEF RouteMessage, RouteRefuse
  <2> QED
    BY <2>1, <2>2, <1>0, <1>p
<1>3. ASSUME NEW m \in Messages, Apart', Placed' = Placed \cup {m},
             fate' = [fate EXCEPT ![m] = "accepted"]
      PROVE  KeptInv'
  BY <1>3, <1>d, <1>k, <1>t, <1>p DEF KeptInv
<1>4. ASSUME NEW m \in Messages, RouteQueueMessage(m) PROVE KeptInv'
  <2>1. /\ m \notin Placed /\ ~RefusesMessages /\ QueueMessage(m)
        /\ deferredQueue' = deferredQueue /\ fate' = [fate EXCEPT ![m] = "accepted"]
    BY <1>4, <1>k DEF RouteQueueMessage
  <2>2. InputApart' /\ steering' \cup Held' = steering \cup Held \cup {m}
    BY <2>1, <1>t, QueueMessageApart DEF Apart, Placed
  <2>3. Apart' /\ Placed' = Placed \cup {m}
    BY <2>1, <2>2, <1>t DEF Apart, Placed
  <2> QED
    BY <2>1, <2>3, <1>3
<1>5. ASSUME NEW m \in Messages, RouteDeferMessage(m) PROVE KeptInv'
  <2>1. m \notin Placed
    BY <1>5, <1>k DEF RouteDeferMessage
  <2>2. Apart' /\ Placed' = Placed \cup {m}
    BY <1>5, <2>1, <1>t, DeferApart DEF RouteDeferMessage
  <2> QED
    BY <1>5, <2>2, <1>3 DEF RouteDeferMessage
<1>6. ASSUME NEW m \in Messages, CancelDeferredMessage(m) PROVE KeptInv'
  <2>1. Apart' /\ Placed' = Placed \ {m}
    BY <1>6, <1>t, CancelApart DEF CancelDeferredMessage
  <2>2. fate' = [fate EXCEPT ![m] = "cancelled"]
    BY <1>6 DEF CancelDeferredMessage
  <2>3. \A n \in Placed' : fate'[n] = "accepted"
    BY <2>1, <2>2, <1>k, <1>t, <1>p
  <2>4. \A n \in Messages : fate'[n] = "accepted" => n \in Placed' \/ iteratorDone'
    BY <2>1, <2>2, <1>d, <1>k, <1>t
  <2> QED
    BY <2>1, <2>3, <2>4, <1>d DEF KeptInv
<1>7. ASSUME NEW m \in Messages, NEW steered \in BOOLEAN, SteerSettles(m, steered)
      PROVE  KeptInv'
  <2>1. Apart' /\ Placed' = Placed /\ fate' = fate
    BY <1>7, <1>t, SteerApart DEF SteerSettles
  <2> QED
    BY <2>1, <1>0, <1>p
<1>8. ASSUME NEW m \in Messages, NEW r \in Requests, RespondWithFeedback(r, m)
      PROVE  KeptInv'
  <2>1. /\ m \notin Placed /\ QueueMessage(m) /\ fate[m] = "unsent"
        /\ deferredQueue' = deferredQueue
        /\ fate' = [fate EXCEPT ![m] = IF RefusesMessages THEN "refused" ELSE "accepted"]
    BY <1>8, <1>k DEF RespondWithFeedback
  <2>2. /\ InputApart'
        /\ steering' \cup Held' =
             IF RefusesMessages THEN steering \cup Held ELSE steering \cup Held \cup {m}
    BY <2>1, <1>t, QueueMessageApart DEF Apart, Placed
  <2>3. Apart' /\ Placed' = IF RefusesMessages THEN Placed ELSE Placed \cup {m}
    BY <2>1, <2>2, <1>t DEF Apart, Placed
  <2>4. CASE RefusesMessages
    BY <2>1, <2>3, <2>4, <1>0, <1>p, <1>t
  <2>5. CASE ~RefusesMessages
    BY <2>1, <2>3, <2>5, <1>3
  <2> QED
    BY <2>4, <2>5
<1>9. CASE SdkNext
  <2>1. Apart' /\ Placed' = Placed /\ fate' = fate
    BY <1>9, <1>t, NextApart DEF SdkNext
  <2> QED
    BY <2>1, <1>0, <1>p
<1>10. CASE TransitionToIdle /\ UNCHANGED fate
  BY <1>10, <1>t, <1>0, <1>p, TransitionApart
<1> QED
  BY <1>1, <1>2, <1>4, <1>5, <1>6, <1>7, <1>8, <1>9, <1>10, <1>t, MessageSteps

\* The invariant says of the three queues in a row what the property does.
LEMMA KeptImplies == TypeOK /\ KeptInv => MessagesKept
<1> SUFFICES ASSUME TypeOK, KeptInv PROVE MessagesKept
  OBVIOUS
<1> DEFINE line == deferredQueue \o queue \o received
<1>1. /\ deferredQueue \in Seq(Messages) /\ queue \in Seq(Messages)
      /\ received \in Seq(Messages)
  BY DEF TypeOK, MessageTypes, InputTypes
<1>2. /\ deferredQueue \o queue \in Seq(Messages)
      /\ ElementsOf(deferredQueue \o queue) = ElementsOf(deferredQueue) \cup ElementsOf(queue)
      /\ Distinct(deferredQueue \o queue)
  BY <1>1, ConcatElements DEF KeptInv, Apart, InputApart, LineApart, Held
<1>3. ElementsOf(line) = ElementsOf(deferredQueue) \cup Held /\ Distinct(line)
  <2> DEFINE front == deferredQueue \o queue
  <2>1. front \in Seq(Messages) /\ Distinct(front) /\ Distinct(received)
    BY <1>2 DEF KeptInv, Apart, InputApart, LineApart
  <2>2. ElementsOf(front) = ElementsOf(deferredQueue) \cup ElementsOf(queue)
    BY <1>2
  <2>3. ElementsOf(front) \cap ElementsOf(received) = {}
    BY <2>2 DEF KeptInv, Apart, InputApart, LineApart, Held
  <2> HIDE DEF front
  <2>4. /\ ElementsOf(front \o received) = ElementsOf(front) \cup ElementsOf(received)
        /\ Distinct(front \o received)
    BY <1>1, <2>1, <2>3, ConcatElements
  <2> QED
    BY <2>2, <2>4 DEF Held, front
<1> HIDE DEF line
<1>4. /\ \A i, j \in 1..Len(line) : line[i] = line[j] => i = j
      /\ steering \cap ElementsOf(line) = {}
  BY <1>3 DEF Distinct, KeptInv, Apart, InputApart
<1>5. ASSUME NEW m \in Messages, fate[m] = "accepted"
      PROVE  m \in steering \/ m \in ElementsOf(line) \/ iteratorDone
  BY <1>3, <1>5 DEF KeptInv, Placed
<1> QED
  BY <1>4, <1>5 DEF MessagesKept, NoDuplicateDelivery, AcceptedNotLost, line

\* An accepted message is in exactly one place until it is cancelled or the
\* process is done, for any number of messages and any interleaving.
THEOREM MessagesAlwaysKept == Spec => []MessagesKept
BY KeptInit, KeptStep, KeptImplies, TypeCorrect, PTL DEF Spec

\* No request stays shown after it was answered, denied by a termination, or
\* aborted as a first one, for any number of requests.
THEOREM ShownAlwaysPending == Spec => []ShownIsPending
<1>1. Init => ShownIsPending
  BY DEF Init, ShownIsPending
<1>2. TypeOK /\ ApprovalsConsistent /\ ShownIsPending /\ [Next]_vars => ShownIsPending'
  <2> SUFFICES ASSUME TypeOK, ApprovalsConsistent, ShownIsPending, [Next]_vars,
                      shown' # NoRequest
               PROVE  ShownIsPending'
    BY DEF ShownIsPending
  <2> DEFINE Emits(r) == \E a : /\ SettleApproval(r, a)
                                /\ EmitNextPendingApproval(Filter(pendingToolApprovalQueue, r))
             Keeps == shown' = shown /\ UNCHANGED approvalVars
  <2>1. ASSUME NEW left, EmitNextPendingApproval(left)
        PROVE  left # <<>> /\ shown' = Head(left)
    BY <2>1 DEF EmitNextPendingApproval, SetState
  <2>2. ASSUME TransitionToIdle PROVE shown' = shown
    BY <2>2 DEF TransitionToIdle, SetState
  <2>3. ASSUME NEW r \in Requests, Emits(r) PROVE ShownIsPending'
    <3> DEFINE left == Filter(pendingToolApprovalQueue, r)
    <3>1. /\ pendingToolApprovalQueue \in Seq(Requests)
          /\ Distinct(pendingToolApprovalQueue)
          /\ ElementsOf(pendingToolApprovalQueue) = pendingToolApprovals
      BY ApprovalsAlt DEF TypeOK, ApprovalTypes
    <3>2. left \in Seq(Requests) /\ ElementsOf(left) = pendingToolApprovals \ {r}
      BY <3>1, FilterType, FilterElements
    <3>3. left # <<>> /\ shown' = Head(left)
      BY <2>1, <2>3
    <3>4. pendingToolApprovals' = pendingToolApprovals \ {r}
      BY <2>3 DEF SettleApproval
    <3> HIDE DEF left
    <3>5. Head(left) \in ElementsOf(left)
      BY <3>2, <3>3 DEF ElementsOf
    <3> QED
      BY <3>2, <3>3, <3>4, <3>5 DEF ShownIsPending
  <2>4. Keeps => ShownIsPending'
    BY DEF ShownIsPending, approvalVars
  <2>5. CASE Routes
    <3>1. Keeps \/ \E r \in Requests : Emits(r)
      BY <2>2, <2>5 DEF Routes, RouteMessage, RouteRefuse, RouteQueueMessage,
         RouteDeferMessage, CancelDeferredMessage, SteerSettles, Hold, Unhold, RouteInput,
         RespondPending, RespondWithFeedback, RespondSettled, Terminate, MarkTerminated,
         Abort, AbortReturns, IdleTimerFires, SetState, statusVars
    <3> QED
      BY <2>3, <2>4, <3>1
  <2>6. ASSUME NEW r \in Requests, HandleToolApproval(r) PROVE ShownIsPending'
    <3>1. CASE pendingToolApprovals = {}
      BY <2>6, <3>1 DEF HandleToolApproval, SetState, ShownIsPending
    <3>2. CASE pendingToolApprovals # {}
      <4>1. /\ shown' = shown /\ firstPending' = firstPending /\ outcome[r] = "none"
            /\ pendingToolApprovals' = pendingToolApprovals \cup {r}
            /\ outcome' = [outcome EXCEPT ![r] = "pending"]
        BY <2>6, <3>2 DEF HandleToolApproval
      <4>2. outcome \in [Requests -> Outcomes] /\ shown \in Requests
        BY <4>1 DEF TypeOK, ApprovalTypes, StatusTypes
      <4> QED
        BY <4>1, <4>2 DEF ShownIsPending
    <3> QED
      BY <3>1, <3>2
  <2>7. ASSUME NEW r \in Requests, OnAbort(r), r \notin firstPending PROVE ShownIsPending'
    <3>1. /\ shown' = shown /\ firstPending' = firstPending
          /\ pendingToolApprovals' = pendingToolApprovals \ {r}
          /\ outcome' = [outcome EXCEPT ![r] = "deny"]
      BY <2>7 DEF OnAbort, SettleApproval
    <3>2. outcome \in [Requests -> Outcomes] /\ shown \in Requests
      BY <3>1 DEF TypeOK, ApprovalTypes, StatusTypes
    <3> QED
      BY <2>7, <3>1, <3>2 DEF ShownIsPending
  <2>8. CASE Sdk
    <3>1. \/ Keeps
          \/ \E r \in Requests : Emits(r) \/ HandleToolApproval(r)
          \/ \E r \in Requests : OnAbort(r) /\ r \notin firstPending
      BY <2>8 DEF Sdk, SdkNext, SdkResult, OnAbort, SdkExit, statusVars
    <3> QED
      BY <2>3, <2>4, <2>6, <2>7, <3>1
  <2>9. CASE Loop
    <3>1. Keeps
      BY <2>2, <2>9 DEF Loop, LoopResult, LoopEnds, LoopFails, MarkTerminated, SetState,
         LoopResumes, statusVars
    <3> QED
      BY <2>4, <3>1
  <2>10. CASE UNCHANGED vars
    BY <2>4, <2>10 DEF vars, statusVars
  <2> QED
    BY <2>5, <2>8, <2>9, <2>10 DEF Next
<1> QED
  BY <1>1, <1>2, TypeCorrect, ApprovalsAlwaysConsistent, PTL DEF Spec

\* A step that changes the shown request to another one takes the head of the
\* queue, for any number of requests.
THEOREM HeadAlwaysShown == Spec => HeadIsShown
<1>1. TypeOK /\ ApprovalsConsistent /\ [Next]_vars
        => [shown' # shown /\ shown' # NoRequest
              => /\ pendingToolApprovalQueue' # <<>>
                 /\ shown' = Head(pendingToolApprovalQueue')]_vars
  <2> SUFFICES ASSUME TypeOK, ApprovalsConsistent, [Next]_vars,
                      shown' # shown, shown' # NoRequest
               PROVE  /\ pendingToolApprovalQueue' # <<>>
                      /\ shown' = Head(pendingToolApprovalQueue')
    OBVIOUS
  <2> DEFINE Emits(r) == /\ pendingToolApprovalQueue' = Filter(pendingToolApprovalQueue, r)
                         /\ EmitNextPendingApproval(Filter(pendingToolApprovalQueue, r))
  <2>1. ASSUME TransitionToIdle PROVE FALSE
    BY <2>1 DEF TransitionToIdle, SetState
  <2>2. ASSUME NEW r \in Requests, Emits(r)
        PROVE  /\ pendingToolApprovalQueue' # <<>>
               /\ shown' = Head(pendingToolApprovalQueue')
    BY <2>2 DEF EmitNextPendingApproval, SetState
  <2>3. ASSUME MarkTerminated PROVE FALSE
    BY <2>3 DEF MarkTerminated, SetState
  <2>4. ASSUME NEW r \in Requests, HandleToolApproval(r)
        PROVE  /\ pendingToolApprovalQueue' # <<>>
               /\ shown' = Head(pendingToolApprovalQueue')
    <3>1. pendingToolApprovals = {} /\ shown' = r
          /\ pendingToolApprovalQueue' = Append(pendingToolApprovalQueue, r)
      BY <2>4 DEF HandleToolApproval, SetState
    <3>2. pendingToolApprovalQueue \in Seq(Requests)
          /\ ElementsOf(pendingToolApprovalQueue) = {}
      BY <3>1 DEF TypeOK, ApprovalTypes, ApprovalsConsistent
    <3>3. pendingToolApprovalQueue = <<>>
      BY <3>2 DEF ElementsOf
    <3> QED
      BY <3>1, <3>3
  <2>5. CASE Routes
    <3>1. \E r \in Requests : Emits(r)
      BY <2>1, <2>3, <2>5 DEF Routes, RouteMessage, RouteRefuse, RouteQueueMessage,
         RouteDeferMessage, CancelDeferredMessage, SteerSettles, Hold, Unhold, RouteInput,
         RespondPending, RespondWithFeedback, RespondSettled, SettleApproval, Terminate,
         Abort, AbortReturns, IdleTimerFires, SetState, statusVars
    <3> QED
      BY <2>2, <3>1
  <2>6. CASE Sdk
    <3>1. (\E r \in Requests : Emits(r)) \/ (\E r \in Requests : HandleToolApproval(r))
      BY <2>6 DEF Sdk, SdkNext, SdkResult, OnAbort, SdkExit, SettleApproval, SetState,
         statusVars
    <3> QED
      BY <2>2, <2>4, <3>1
  <2>7. ~Loop
    BY <2>1, <2>3 DEF Loop, LoopResult, LoopEnds, LoopFails, LoopResumes, statusVars
  <2>8. ~ UNCHANGED vars
    BY DEF vars, statusVars
  <2> QED
    BY <2>5, <2>6, <2>7, <2>8 DEF Next
<1> QED
  BY <1>1, TypeCorrect, ApprovalsAlwaysConsistent, PTL DEF Spec, HeadIsShown

=============================================================================
