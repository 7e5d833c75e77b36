-------------------- MODULE ExternalSessionTrackerProofs --------------------
(***************************************************************************)
(* Theorems about ExternalSessionTracker, for any sessions, writes and     *)
(* concurrency of the batch processor.                                     *)
(***************************************************************************)
EXTENDS ExternalSessionTracker, TLAPS

\* Only files of Codex are read before a session is taken for external, so for a
\* Claude session nothing comes between the look at the grace period and the mark.
NoClaudeReads == \A s \in Claude : identifying[s] = 0

Inv ==
    /\ DOMAIN identifying = Sessions /\ NoClaudeReads
    /\ DecayArmed /\ AbortedNotExternal

LEMMA InvInit == Init => Inv
BY DEF Init, Inv, NoClaudeReads, DecayArmed, AbortedNotExternal, Sessions

\* What is external and within its grace period shrinks or stays.
LEMMA ShrinkKeeps ==
  ASSUME Inv, NEW s, UNCHANGED <<identifying, recentlyAborted>>, RemoveExternal(s)
  PROVE  Inv'
BY DEF Inv, NoClaudeReads, DecayArmed, AbortedNotExternal, RemoveExternal

LEMMA KeptKeeps ==
  ASSUME Inv, UNCHANGED <<identifying, recentlyAborted, external, decay>>
  PROVE  Inv'
BY DEF Inv, NoClaudeReads, DecayArmed, AbortedNotExternal

\* Marking one session external keeps the others as they were.
LEMMA MarkKeeps ==
  ASSUME Inv, NEW s, MarkExternal(s), recentlyAborted' = recentlyAborted
  PROVE  /\ DecayArmed'
         /\ s \notin recentlyAborted \cap Claude => AbortedNotExternal'
BY DEF Inv, DecayArmed, AbortedNotExternal, MarkExternal, TimerSet

LEMMA InvStep == Inv /\ [Next]_vars => Inv'
<1> SUFFICES ASSUME Inv, [Next]_vars PROVE Inv'
  OBVIOUS
<1> USE DEF readVars, trackVars
<1>1. CASE Flushes \/ EventEmitted
  BY <1>1, KeptKeeps DEF Flushes, EventEmitted
<1>2. ASSUME NEW s \in Sessions, Registers(s) \/ Unregisters(s) PROVE Inv'
  BY <1>2, KeptKeeps DEF Registers, Unregisters
<1>3. ASSUME NEW s \in Sessions, Aborts(s) PROVE Inv'
  BY <1>3 DEF Aborts, MarkAborted, RemoveExternal, Inv, NoClaudeReads, DecayArmed,
              AbortedNotExternal
<1>4. ASSUME NEW s \in Sessions, OwnedFileChanges(s) \/ Decays(s) PROVE Inv'
  BY <1>4, ShrinkKeeps DEF OwnedFileChanges, Decays
<1>5. ASSUME NEW s \in Sessions, AbortedFileChanges(s) PROVE Inv'
  BY <1>5, KeptKeeps DEF AbortedFileChanges, Unnoticed
<1>6. ASSUME NEW s \in Sessions, ClaudeFileChanges(s) PROVE Inv'
  BY <1>6, MarkKeeps DEF ClaudeFileChanges, Inv, NoClaudeReads
<1>7. ASSUME NEW s \in Sessions, CodexFileChanges(s) PROVE Inv'
  <2>1. s \notin Claude
    BY <1>7, TrackerAssumption DEF CodexFileChanges
  <2> QED
    BY <1>7, <2>1 DEF CodexFileChanges, Unnoticed, Inv, NoClaudeReads, DecayArmed,
                      AbortedNotExternal
<1>8. ASSUME NEW s \in Sessions, CodexIdentified(s) PROVE Inv'
  <2>1. /\ identifying[s] > 0 /\ recentlyAborted' = recentlyAborted
        /\ identifying' = [identifying EXCEPT ![s] = identifying[s] - 1]
    BY <1>8 DEF CodexIdentified
  <2>2. s \notin Claude
    BY <2>1 DEF Inv, NoClaudeReads
  <2>3. DOMAIN identifying' = Sessions /\ NoClaudeReads'
    BY <2>1, <2>2 DEF Inv, NoClaudeReads
  <2>4. CASE MarkExternal(s)
    BY <2>1, <2>2, <2>3, <2>4, MarkKeeps DEF Inv
  <2>5. CASE Unnoticed
    BY <2>1, <2>3, <2>5 DEF Unnoticed, Inv, DecayArmed, AbortedNotExternal
  <2> QED
    BY <1>8, <2>4, <2>5 DEF CodexIdentified
<1>9. ASSUME NEW s \in Sessions, CodexCreated(s) \/ TaskFails(s) PROVE Inv'
  BY <1>9, KeptKeeps DEF CodexCreated, TaskFails
<1>10. ASSUME NEW s \in Sessions, TaskSucceeds(s) PROVE Inv'
  <2>1. RemoveExternal(s) \/ UNCHANGED <<external, decay>>
    BY <1>10 DEF TaskSucceeds, OnResult
  <2>2. UNCHANGED <<identifying, recentlyAborted>>
    BY <1>10 DEF TaskSucceeds
  <2> QED
    BY <2>1, <2>2, ShrinkKeeps, KeptKeeps
<1>11. ASSUME NEW s \in Sessions, GraceEnds(s) PROVE Inv'
  BY <1>11 DEF GraceEnds, Inv, NoClaudeReads, DecayArmed, AbortedNotExternal
<1>12. CASE UNCHANGED vars
  BY <1>12, KeptKeeps DEF vars
<1> QED
  BY <1>1, <1>2, <1>3, <1>4, <1>5, <1>6, <1>7, <1>8, <1>9, <1>10, <1>11, <1>12 DEF Next

LEMMA Invariance == Spec => []Inv
BY InvInit, InvStep, PTL DEF Spec

\* A Claude session within its grace period is never taken for another program's,
\* whatever the aborted process still writes and whichever read is under way.
THEOREM AbortedNeverExternal == Spec => []AbortedNotExternal
<1>1. Inv => AbortedNotExternal
  BY DEF Inv
<1> QED
  BY Invariance, <1>1, PTL

\* A session is external exactly while its decay timer is armed.
THEOREM DecayAlwaysArmed == Spec => []DecayArmed
<1>1. Inv => DecayArmed
  BY DEF Inv
<1> QED
  BY Invariance, <1>1, PTL
=============================================================================
