---------------------------- MODULE CockpitProofs ----------------------------
(***************************************************************************)
(* Proofs about the operator cockpit: its time machine, for any slider and *)
(* any number of presses, and its terminal and continuity capsule, for any *)
(* number of lines kept and any repositories.  The two share no state.     *)
(***************************************************************************)
EXTENDS PlayTimers, TerminalAndCapsule, SequenceLemmas

CONSTANTS
    End, Step, Jump, MaxPlays, MaxMoves,     \* Timeline
    MaxLogs                                  \* CockpitDesk

VARIABLES
    slider, label, plays, moves,             \* Timeline
    logs, events, paused, entity             \* CockpitDesk

Machine == INSTANCE Timeline

Desk == INSTANCE CockpitDesk

-----------------------------------------------------------------------------
(* The time machine *)

TimelineInv == playing \in BOOLEAN /\ TimelineOwned

LEMMA TimelineInit == Machine!Init => TimelineInv
BY DEF Machine!Init, TimelineInv, TimelineOwned

LEMMA TimelineNext == TimelineInv /\ [Machine!Next]_(Machine!vars) => TimelineInv'
<1> SUFFICES ASSUME TimelineInv, [Machine!Next]_(Machine!vars) PROVE TimelineInv'
  OBVIOUS
<1> USE DEF TimelineInv, TimelineOwned
<1>1. CASE Machine!Play
  BY <1>1 DEF Machine!Play
<1>2. CASE Machine!Pause
  BY <1>2 DEF Machine!Pause
<1>3. ASSUME NEW t \in 1..MaxPlays, Machine!TimerTick(t) PROVE TimelineInv'
  <2>1. playing /\ running = {handle} /\ UNCHANGED handle
    BY <1>3 DEF Machine!TimerTick
  <2>2. CASE Machine!Advanced = End
    BY <1>3, <2>1, <2>2 DEF Machine!TimerTick
  <2>3. CASE Machine!Advanced # End
    BY <1>3, <2>1, <2>3 DEF Machine!TimerTick
  <2>4. QED
    BY <2>2, <2>3
<1>4. ASSUME NEW value, Machine!Move(value) PROVE TimelineInv'
  BY <1>4 DEF Machine!Move
<1>5. CASE Machine!Live
  BY <1>5 DEF Machine!Live, Machine!StillRunning
<1>6. CASE UNCHANGED Machine!vars
  BY <1>6 DEF Machine!vars
<1>7. QED
  BY <1>1, <1>2, <1>3, <1>4, <1>5, <1>6
     DEF Machine!Next, Machine!StepBack, Machine!StepForward, Machine!Drag

\* No interval timer is ever left behind (initTimeMachineControls).
THEOREM TimersOwned == Machine!Spec => []TimelineOwned
<1>1. TimelineInv => TimelineOwned
  BY DEF TimelineInv
<1>2. QED
  BY TimelineInit, TimelineNext, <1>1, PTL DEF Machine!Spec

-----------------------------------------------------------------------------
(* The terminal and the capsule: the state keeps the newest lines of those *)
(* accepted, the screen shows what the filter selects of the state, and a  *)
(* window is only open on an active capsule, which the output renders.     *)

Lines == (Desk!Tags \union {"fleet"}) \X Nat

TerminalInv ==
    /\ logged \in Seq(Lines) /\ events \in Nat
    /\ logs = Newest(logged)
    /\ lines = Filtered(logs, filter)

CapsuleInv ==
    /\ entity \in Repos \union {"none"}
    /\ modal \in BOOLEAN
    /\ modal => capsule # "none" /\ output = <<capsule, mode>>

DeskInv == TerminalInv /\ CapsuleInv

\* The operators of the instance are those of the promises.
LEMMA SameOperators ==
    /\ \A e, f : Desk!Filtered(e, f) = Filtered(e, f)
    /\ Desk!Seeds = Seeds
BY DEF Desk!Filtered, Filtered, Desk!Select, Select, Desk!ToSet, ToSet, Desk!Seeds, Seeds

\* Of the newest lines and one more, the terminal keeps the newest.
LEMMA NewestKept ==
    ASSUME NEW E, NEW s \in Seq(E), NEW x \in E
    PROVE  Desk!Kept(Append(Newest(s), x)) = Newest(Append(s, x))
<1> DEFINE n == Len(s)
           k == KeepLogs
           a == Append(s, x)
<1>1. /\ k \in Nat /\ k >= 1 /\ n \in Nat
  BY CockpitAssumption DEF Seeds
<1>2. /\ a \in Seq(E) /\ Len(a) = n + 1 /\ a[n + 1] = x
      /\ \A i \in 1..n : a[i] = s[i]
  BY AppendProperties
<1>3. CASE n > k
  <2> DEFINE u == SubSeq(s, n - k + 1, n)
             b == Append(u, x)
             t == Tail(b)
             v == SubSeq(a, n - k + 2, n + 1)
  <2>1. /\ u \in Seq(E) /\ Len(u) = k /\ \A i \in 1..k : u[i] = s[n - k + i]
    BY <1>1, <1>3, SubSeqProperties
  <2> HIDE DEF u
  <2>2. /\ b \in Seq(E) /\ Len(b) = k + 1 /\ b[k + 1] = x
        /\ \A i \in 1..k : b[i] = u[i]
    BY <2>1, AppendProperties
  <2> HIDE DEF b
  <2>3. /\ t \in Seq(E) /\ Len(t) = k /\ \A i \in 1..k : t[i] = b[i + 1]
    BY <1>1, <2>2, HeadTailProperties
  <2>4. /\ v \in Seq(E) /\ Len(v) = k /\ \A i \in 1..k : v[i] = a[n - k + 1 + i]
    <3>1. n + 1 - k + 1 = n - k + 2 /\ n - k + 2 \in 1..(n + 2) /\ n + 1 \in 0..(n + 1)
      BY <1>1, <1>3
    <3>2. QED
      BY <1>1, <1>2, <1>3, <3>1, SubSeqProperties
  <2> HIDE DEF t, v
  <2>5. \A i \in 1..k : t[i] = v[i]
    <3>1. TAKE i \in 1..k
    <3>2. CASE i = k
      <4>1. t[i] = x
        BY <1>1, <2>2, <2>3, <3>2
      <4>2. n - k + 1 + i = n + 1
        BY <1>1, <3>2
      <4>3. v[i] = a[n + 1]
        BY <1>1, <2>4, <3>2, <4>2
      <4>4. QED
        BY <1>2, <4>1, <4>3
    <3>3. CASE i < k
      <4>1. t[i] = u[i + 1] /\ u[i + 1] = s[n - k + (i + 1)]
        BY <1>1, <2>1, <2>2, <2>3, <3>3
      <4>2. n - k + 1 + i \in 1..n /\ n - k + (i + 1) = n - k + 1 + i
        BY <1>1, <1>3, <3>3
      <4>3. QED
        BY <1>2, <2>4, <4>1, <4>2
    <3>4. QED
      BY <1>1, <3>2, <3>3
  <2>6. t = v
    BY <1>1, <2>3, <2>4, <2>5, SeqEqual
  <2>7. Newest(s) = u /\ Newest(a) = v
    <3>1. n + 1 - k + 1 = n - k + 2 /\ n + 1 > k
      BY <1>1, <1>3
    <3>2. Newest(s) = u
      BY <1>3 DEF Newest, u
    <3>3. Newest(a) = v
      <4>1. Len(a) > KeepLogs /\ Len(a) - KeepLogs + 1 = n - k + 2 /\ Len(a) = n + 1
        BY <1>1, <1>2, <3>1
      <4>2. Newest(a) = SubSeq(a, n - k + 2, n + 1)
        BY <4>1 DEF Newest
      <4>3. QED
        BY <4>2 DEF v
    <3>4. QED
      BY <3>2, <3>3
  <2>8. Desk!Kept(b) = t
    BY <1>1, <2>2 DEF Desk!Kept, t
  <2>9. QED
    BY <2>6, <2>7, <2>8 DEF b
<1>4. CASE n = k
  <2>1. Newest(s) = s /\ Newest(a) = SubSeq(a, 2, n + 1)
    BY <1>1, <1>2, <1>4 DEF Newest
  <2>2. Desk!Kept(a) = Tail(a)
    BY <1>1, <1>2, <1>4 DEF Desk!Kept
  <2> DEFINE t == Tail(a)
             v == SubSeq(a, 2, n + 1)
  <2>3. t \in Seq(E) /\ Len(t) = n /\ \A i \in 1..n : t[i] = a[i + 1]
    BY <1>1, <1>2, HeadTailProperties
  <2>4. v \in Seq(E) /\ Len(v) = n /\ \A i \in 1..n : v[i] = a[i + 1]
    BY <1>1, <1>2, <1>4, SubSeqProperties
  <2> HIDE DEF t, v
  <2>5. t = v
    BY <1>1, <2>3, <2>4, SeqEqual
  <2>6. QED
    BY <2>1, <2>2, <2>5 DEF t, v
<1>5. CASE n < k
  BY <1>1, <1>2, <1>5 DEF Newest, Desk!Kept
<1>6. QED
  BY <1>1, <1>3, <1>4, <1>5

LEMMA DeskInit == Desk!Init => DeskInv
<1> SUFFICES ASSUME Desk!Init PROVE DeskInv
  OBVIOUS
<1> USE DEF Desk!Init
<1>1. Len(Seeds) = 6 /\ \A i \in 1..6 : Seeds[i] \in Desk!Tags \union {"fleet"}
  BY DEF Seeds, Desk!Tags
<1>2. logged \in Seq(Lines) /\ Len(logged) = 6 /\ logged = logs /\ lines = logs
  <2>1. logs = [i \in 1..6 |-> <<Seeds[i], i>>] /\ logged = logs /\ lines = logs
    BY <1>1, SameOperators
  <2>2. \A i \in 1..6 : <<Seeds[i], i>> \in Lines
    BY <1>1 DEF Lines
  <2>3. logs \in [1..6 -> Lines]
    BY <2>1, <2>2
  <2>4. logs \in Seq(Lines)
    <3>1. 6 \in Nat
      OBVIOUS
    <3>2. \A n \in Nat : [1..n -> Lines] \subseteq Seq(Lines)
      BY SeqDef, Zenon
    <3>3. QED
      BY <2>3, <3>1, <3>2, Zenon
  <2>5. QED
    BY <2>1, <2>3, <2>4, LenProperties
<1>3. Newest(logged) = logged
  BY <1>1, <1>2, CockpitAssumption DEF Newest
<1>4. Filtered(logs, "all") = logs
  <2>1. {e \in ToSet(logs) : "all" = "all" \/ e[1] = "all"} = ToSet(logs)
    OBVIOUS
  <2>2. QED
    BY <1>2, <2>1, SelectAll DEF Filtered
<1>5. events \in Nat
  BY <1>1, SameOperators
<1>6. QED
  BY <1>2, <1>3, <1>4, <1>5 DEF DeskInv, TerminalInv, CapsuleInv

LEMMA DeskNext == DeskInv /\ [Desk!Next]_(Desk!vars) => DeskInv'
<1> SUFFICES ASSUME DeskInv, [Desk!Next]_(Desk!vars) PROVE DeskInv'
  OBVIOUS
<1> USE DEF DeskInv
<1>1. ASSUME NEW tag \in Desk!Tags, Desk!AddTerminalLog(tag) PROVE DeskInv'
  <2>1. CapsuleInv'
    BY <1>1 DEF Desk!AddTerminalLog, Desk!capsuleVars, CapsuleInv
  <2>2. CASE paused
    BY <1>1, <2>1, <2>2 DEF Desk!AddTerminalLog, TerminalInv
  <2>3. CASE ~paused
    <3> DEFINE entry == <<tag, events + 1>>
    <3>1. entry \in Lines
      BY DEF TerminalInv, Lines
    <3>2. /\ logs' = Desk!Kept(Append(logs, entry)) /\ logged' = Append(logged, entry)
          /\ lines' = Filtered(logs', filter) /\ filter' = filter /\ events' = events + 1
      BY <1>1, <2>3, SameOperators DEF Desk!AddTerminalLog
    <3> HIDE DEF entry
    <3>3. logs' = Newest(logged')
      BY <3>1, <3>2, NewestKept DEF TerminalInv
    <3>4. logged' \in Seq(Lines) /\ events' \in Nat
      BY <3>1, <3>2, AppendProperties DEF TerminalInv
    <3>5. QED
      BY <2>1, <3>2, <3>3, <3>4 DEF TerminalInv
  <2>4. QED
    BY <2>2, <2>3
<1>2. CASE Desk!ClearTerminal
  <2>1. Newest(<<>>) = <<>>
    BY CockpitAssumption DEF Newest
  <2>2. <<>> \in Seq(Lines)
    OBVIOUS
  <2>3. QED
    BY <1>2, <2>1, <2>2, SameOperators DEF Desk!ClearTerminal, Desk!capsuleVars, TerminalInv, CapsuleInv
<1>3. CASE Desk!PauseTerminal
  BY <1>3 DEF Desk!PauseTerminal, Desk!capsuleVars, TerminalInv, CapsuleInv
<1>4. ASSUME NEW f \in Desk!Filters, Desk!FilterTerminal(f) PROVE DeskInv'
  BY <1>4, SameOperators DEF Desk!FilterTerminal, Desk!capsuleVars, TerminalInv, CapsuleInv
<1>5. ASSUME UNCHANGED Desk!terminalVars PROVE TerminalInv'
  BY <1>5 DEF Desk!terminalVars, TerminalInv
<1>6. ASSUME NEW repo \in Repos, Desk!OpenEntityDetail(repo) PROVE DeskInv'
  BY <1>5, <1>6 DEF Desk!OpenEntityDetail, Desk!capsuleVars, CapsuleInv
<1>7. ASSUME NEW repo \in Repos, Desk!OpenRepoCapsule(repo) PROVE DeskInv'
  BY <1>5, <1>7, CockpitAssumption DEF Desk!OpenRepoCapsule, Desk!Rendered, CapsuleInv
<1>8. CASE Desk!CloseEntityDetail
  BY <1>5, <1>8 DEF Desk!CloseEntityDetail, Desk!capsuleVars, CapsuleInv
<1>9. CASE Desk!OpenFromDrawer
  <2>1. entity \in Repos /\ Desk!OpenRepoCapsule(entity)
    BY <1>9 DEF Desk!OpenFromDrawer, CapsuleInv
  <2>2. QED
    BY <1>7, <2>1
<1>10. CASE Desk!CloseCapsule
  BY <1>5, <1>10 DEF Desk!CloseCapsule, CapsuleInv
<1>11. ASSUME NEW m \in Desk!Modes, Desk!SetCapsuleMode(m) PROVE DeskInv'
  BY <1>5, <1>11 DEF Desk!SetCapsuleMode, Desk!Rendered, CapsuleInv
<1>12. CASE UNCHANGED Desk!vars
  BY <1>5, <1>12 DEF Desk!vars, Desk!capsuleVars, CapsuleInv
<1>13. QED
  BY <1>1, <1>2, <1>3, <1>4, <1>6, <1>7, <1>8, <1>9, <1>10, <1>11, <1>12 DEF Desk!Next

\* The terminal shows the newest lines its filter selects, and an open capsule window
\* what was chosen last (addTerminalLog, renderTerminalLogs, renderCapsuleContent).
THEOREM DeskShowsState == Desk!Spec => []ScreensFollowState
<1>1. DeskInv => ScreensFollowState
  BY DEF DeskInv, TerminalInv, CapsuleInv, ScreensFollowState
<1>2. QED
  BY DeskInit, DeskNext, <1>1, PTL DEF Desk!Spec

=============================================================================
