---------------------------- MODULE TypeSafePolicy ----------------------------
(***************************************************************************)
(* When the desktop client asks the TypeSafe provider (typesafe_policy.go, *)
(* typesafe_api.go).  Goroutines of the background loop and of handlers    *)
(* call maybeTypeSafeEvaluate; it reads key, state and clock, decides      *)
(* under a lock, calls the provider without it and stores the answer under *)
(* it again.                                                               *)
(***************************************************************************)
EXTENDS EvaluationBudget

CONSTANTS
    Callers,         \* the goroutines
    States,          \* fingerprints of the observed state
    MinInterval,     \* TypeSafeMinIntervalSec
    DayLength,
    MaxTime,         \* bound on the clock
    MaxCalls         \* bound on the calls of maybeTypeSafeEvaluate

VARIABLES
    clock,           \* App.nowUTC()
    state,           \* the fingerprint of typeSafeState()
    key,             \* whether the vault has a key
    typeSafeDay, typeSafeCalls, typeSafeRunning, typeSafeLastHash,
    decision,        \* when App.typeSafe was evaluated, or Never
    caller,          \* where each goroutine is
    begun            \* calls of maybeTypeSafeEvaluate so far

policy == <<typeSafeDay, typeSafeCalls, typeSafeRunning, typeSafeLastHash>>
vars   == <<clock, state, key, policy, decision, caller, begun, automatic>>

Never == -1
Idle  == [pc |-> "idle"]

-----------------------------------------------------------------------------
\* Key, state and clock are read, in this order and before the lock is taken.
Begin(c, force) ==
    /\ caller[c] = Idle /\ begun < MaxCalls /\ key
    /\ begun' = begun + 1
    /\ caller' = [caller EXCEPT ![c] =
                     [pc |-> "read", force |-> force, hash |-> state, now |-> clock]]
    /\ UNCHANGED <<clock, state, key, policy, decision, automatic>>

Day(c) == caller[c].now \div DayLength

\* The counter of the caller's day.
Calls(c) == IF typeSafeDay = Day(c) THEN typeSafeCalls ELSE 0

Fresh(c) ==
    /\ typeSafeLastHash = caller[c].hash /\ decision # Never
    /\ caller[c].now - decision < MinInterval

\* An evaluation that runs does not hold another back.
Held_UnlessFresh(c) == ~caller[c].force /\ (Fresh(c) \/ Calls(c) >= Budget)

Held(c) == typeSafeRunning \/ (~caller[c].force /\ (Fresh(c) \/ Calls(c) >= Budget))

\* Under the lock.
Enter(c) ==
    /\ caller[c].pc = "read"
    /\ typeSafeDay' = Day(c) /\ typeSafeCalls' = Calls(c)
    /\ LET before == IF typeSafeDay = Day(c) THEN automatic ELSE 0 IN
       IF Held(c)
       THEN /\ caller' = [caller EXCEPT ![c] = Idle]
            /\ automatic' = before
            /\ UNCHANGED typeSafeRunning
       ELSE /\ caller' = [caller EXCEPT ![c].pc = "call"]
            /\ automatic' = IF caller[c].force THEN before ELSE before + 1
            /\ typeSafeRunning' = TRUE
    /\ UNCHANGED <<clock, state, key, typeSafeLastHash, decision, begun>>

\* An answer, an error or the end of the twenty seconds: each counts.
Finish(c) ==
    /\ caller[c].pc = "call"
    /\ typeSafeRunning' = FALSE
    /\ typeSafeCalls' = typeSafeCalls + 1
    /\ typeSafeLastHash' = caller[c].hash
    /\ decision' = clock
    /\ caller' = [caller EXCEPT ![c] = Idle]
    /\ UNCHANGED <<clock, state, key, typeSafeDay, begun, automatic>>

\* A key that is set is tried at once, see Begin with force.
SetKey ==
    /\ ~key /\ key' = TRUE
    /\ UNCHANGED <<clock, state, policy, decision, caller, begun, automatic>>

DeleteKey ==
    /\ key /\ key' = FALSE
    /\ decision' = Never
    /\ UNCHANGED <<clock, state, policy, caller, begun, automatic>>

Change(s) ==
    /\ s # state /\ state' = s
    /\ UNCHANGED <<clock, key, policy, decision, caller, begun, automatic>>

Tick ==
    /\ clock < MaxTime /\ clock' = clock + 1
    /\ UNCHANGED <<state, key, policy, decision, caller, begun, automatic>>

Init ==
    /\ clock = 0 /\ state \in States /\ key = TRUE
    /\ typeSafeDay = Never /\ typeSafeCalls = 0 /\ typeSafeRunning = FALSE
    /\ typeSafeLastHash = Never
    /\ decision = Never /\ caller = [c \in Callers |-> Idle] /\ begun = 0 /\ automatic = 0

Next ==
    \/ \E c \in Callers :
           \/ Begin(c, TRUE) \/ Begin(c, FALSE)
           \/ Enter(c) \/ Finish(c)
    \/ \E s \in States : Change(s)
    \/ SetKey \/ DeleteKey \/ Tick

Spec == Init /\ [][Next]_vars

=============================================================================
