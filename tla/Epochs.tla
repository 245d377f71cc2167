------------------------------- MODULE Epochs -------------------------------
(***************************************************************************)
(* x/epochs: named, regular epochs counted by the BeginBlocker, which      *)
(* starts at most one new epoch of an identifier per block and calls the   *)
(* hooks of other modules at the end of the old and at the start of the    *)
(* new one.                                                                *)
(*                                                                         *)
(* The BeginBlocker only compares the block time with times of an          *)
(* EpochInfo, so those are kept relative to the block time:                *)
(*   exists    there is an EpochInfo of this identifier                    *)
(*   started   EpochCountingStarted                                        *)
(*   elapsed   the block time minus CurrentEpochStartTime, or minus        *)
(*             StartTime as long as counting has not started               *)
(* Left out are CurrentEpochStartHeight, which only a query reads, and the *)
(* number CurrentEpoch, which is only handed to the hooks.                 *)
(***************************************************************************)
EXTENDS Integers

CONSTANTS Identifiers,
          Duration,     \* of the epochs of each identifier
          Gaps,         \* times between two blocks
          StartTimes,   \* of a new EpochInfo, minus the block time
          MaxLag        \* bound: elapsed

\* EpochInfo.Validate refuses a duration of 0 (a negative one would pass).
ASSUME EpochsAssumption ==
    /\ Duration \in [Identifiers -> Nat \ {0}]
    /\ Gaps \subseteq Nat \ {0} /\ StartTimes \subseteq Int /\ MaxLag \in Nat

VARIABLES epochs,   \* the EpochInfos
          ended,    \* identifiers whose AfterEpochEnd hook this block called
          gap,      \* the time this block came after the last one
          height,   \* the block height, modulo 2
          clock     \* the time since StartTime, modulo the duration
epochVars == <<epochs, ended, gap, height, clock>>

NoEpochInfo == [exists |-> FALSE, started |-> FALSE, elapsed |-> 0]

EpochsInit ==
    /\ epochs = [i \in Identifiers |-> NoEpochInfo]
    /\ ended = {}
    /\ gap = 0
    /\ height = 0
    /\ clock = [i \in Identifiers |-> 0]

-----------------------------------------------------------------------------
\* Mutant: an epoch is over when the one after it would be.
StartsLate(i, info) ==
    /\ info.exists /\ info.elapsed >= 0
    /\ ~info.started \/ info.elapsed > 2 * Duration[i]

\* shouldEpochStart, with the epoch as this block finds it: never before the
\* start time, at once if counting has not started, else when the epoch is
\* over.
ShouldEpochStart(i, info) ==
    /\ info.exists /\ info.elapsed >= 0
    /\ ~info.started \/ info.elapsed > Duration[i]

\* The first epoch starts at StartTime, every other where the last one ended.
Started(i, info) ==
    IF ~ShouldEpochStart(i, info) THEN info
    ELSE IF info.started THEN [info EXCEPT !.elapsed = @ - Duration[i]]
    ELSE [info EXCEPT !.started = TRUE]

\* The EpochInfos as a block that comes dt later finds them.
Later(dt) ==
    [i \in Identifiers |->
        IF epochs[i].exists THEN [epochs[i] EXCEPT !.elapsed = @ + dt] ELSE epochs[i]]

EndsIn(found) == {i \in Identifiers : ShouldEpochStart(i, found[i]) /\ found[i].started}

BeginBlocker(dt) ==
    /\ \A i \in Identifiers : Later(dt)[i].elapsed <= MaxLag
    /\ epochs' = [i \in Identifiers |-> Started(i, Later(dt)[i])]
    /\ ended' = EndsIn(Later(dt))
    /\ gap' = dt
    /\ height' = 1 - height
    /\ clock' = [i \in Identifiers |->
                    IF epochs[i].exists THEN (clock[i] + dt) % Duration[i] ELSE clock[i]]

\* AddEpochInfo, from genesis or from the application: a start time left unset
\* is the block time.
AddEpochInfo(i, startTime) ==
    /\ ~epochs[i].exists
    /\ -startTime <= MaxLag
    /\ epochs' = [epochs EXCEPT ![i] = [exists |-> TRUE, started |-> FALSE,
                                        elapsed |-> -startTime]]
    /\ clock' = [clock EXCEPT ![i] = (-startTime) % Duration[i]]
    /\ ended' = {}
    /\ UNCHANGED <<gap, height>>

-----------------------------------------------------------------------------
(* Properties *)

EpochsTypeOK ==
    /\ epochs \in [Identifiers -> [exists : BOOLEAN, started : BOOLEAN, elapsed : Int]]
    /\ ended \subseteq Identifiers
    /\ gap \in {0} \cup Gaps
    /\ height \in {0, 1}
    /\ \A i \in Identifiers : clock[i] \in 0 .. Duration[i] - 1

\* However irregular the blocks, epochs start at whole multiples of the
\* duration after StartTime, and none starts ahead of its time.
EpochsOnGrid ==
    \A i \in Identifiers :
        epochs[i].started =>
            /\ epochs[i].elapsed >= 0
            /\ epochs[i].elapsed % Duration[i] = clock[i]

\* After a halt the BeginBlocker makes up for the epochs missed: if blocks
\* come faster than epochs from some time on, the current epoch of every
\* identifier is finally always the one the block time lies in.
CatchesUp ==
    \A i \in Identifiers :
        <>[](gap < Duration[i] /\ epochs[i].exists)
            => <>[](epochs[i].started /\ epochs[i].elapsed <= Duration[i])
=============================================================================
