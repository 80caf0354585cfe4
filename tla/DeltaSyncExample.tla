--------------------------- MODULE DeltaSyncExample --------------------------
(***************************************************************************)
(* examples/delta-sync: a poller built on PlanSync that persists its       *)
(* SyncState between passes, and the process around it, which may be       *)
(* killed at any moment and started again.  The store lives in memory; the *)
(* state file is replaced by writing a sibling and renaming it.            *)
(***************************************************************************)
EXTENDS PlanSync

CONSTANTS NoFile,   \* no such file
          Torn      \* what a write that was cut short leaves

ASSUME FileAssumption == {NoFile, Torn} \cap SyncState = {}

VARIABLES
    proc,       \* "down", "pass" (Delta and merge), "save", "rename", "sleep"
    home,       \* the plan resolved at start
    file,       \* statePath
    tmp,        \* its .tmp sibling
    resumed,    \* this process started from a saved state
    merged      \* every state whose batch some process has merged

process == <<proc, home, resumed>>
disk == <<file, tmp>>
exampleVars == <<vars, process, disk, merged>>

ExampleInit ==
    /\ Init
    /\ proc = "down"
    /\ home = NoPlan
    /\ file = NoFile /\ tmp = NoFile
    /\ resumed = FALSE
    /\ merged = {}

\* The first plan of the list, whichever the server puts there, an empty store
\* and the state of the last save: loadState takes a file that it cannot read
\* or parse for none.
Boot(p) ==
    /\ proc = "down"
    /\ proc' = "pass"
    /\ home' = p
    /\ st' = IF file \in SyncState THEN file ELSE ZeroState
    /\ store' = NoStore
    /\ resumed' = (file \in SyncState)
    /\ UNCHANGED <<server, call, disk, merged>>

Exit == proc' = "down" /\ UNCHANGED <<home, resumed>>

\* Delta refuses a state of another plan: run returns the error.
DeltaRefuses ==
    /\ proc = "pass" /\ stage = "idle"
    /\ ~Attributable(home)
    /\ Exit
    /\ UNCHANGED <<vars, disk, merged>>

PassCalls == /\ proc = "pass"
             /\ CallDelta(home)
             /\ UNCHANGED <<process, disk, merged>>

PassFails == /\ proc = "pass"
             /\ DeltaFails
             /\ Exit
             /\ UNCHANGED <<disk, merged>>

PassReturns == /\ proc = "pass"
               /\ DeltaReturns
               /\ UNCHANGED <<process, disk, merged>>

PassMerges == /\ proc = "pass"
              /\ Merge
              /\ proc' = "save"
              /\ merged' = merged \cup {st}
              /\ UNCHANGED <<home, resumed, disk>>

\* Mutant: the state saved as soon as Delta has advanced it.
WriteTmpEarly ==
    /\ proc = "save" \/ stage = "merge"
    /\ \/ tmp' = st /\ proc' = "rename" /\ UNCHANGED <<home, resumed>>
       \/ tmp' = Torn /\ Exit
    /\ UNCHANGED <<vars, file, merged>>

\* saveState, first half: it succeeds, or it is cut short by an error or a kill.
WriteTmp ==
    /\ proc = "save"
    /\ \/ tmp' = st /\ proc' = "rename" /\ UNCHANGED <<home, resumed>>
       \/ tmp' = Torn /\ Exit
    /\ UNCHANGED <<vars, file, merged>>

\* saveState, second half.
Rename ==
    /\ proc = "rename"
    /\ \/ /\ file' = tmp /\ tmp' = NoFile
          /\ proc' = "sleep" /\ UNCHANGED <<home, resumed>>
       \/ Exit /\ UNCHANGED disk
    /\ UNCHANGED <<vars, merged>>

\* The pause ends, with the next pass or with the interrupt.
Sleep == /\ proc = "sleep"
         /\ \/ proc' = "pass" /\ UNCHANGED <<home, resumed>>
            \/ Exit
         /\ UNCHANGED <<vars, disk, merged>>

\* Killed: what is in memory, an exchange under way included, is gone.
Crash == /\ proc # "down"
         /\ Exit
         /\ stage' = "idle" /\ plan' = NoPlan /\ reply' = NoReply
         /\ UNCHANGED <<server, app, disk, merged>>

ExampleNext ==
    \/ \E p \in Plans : Boot(p)
    \/ DeltaRefuses \/ PassCalls \/ PassFails \/ PassReturns \/ PassMerges
    \/ WriteTmp \/ Rename \/ Sleep \/ Crash
    \/ (Altered \/ Answer) /\ UNCHANGED <<process, disk, merged>>

ExampleSpec == ExampleInit /\ [][ExampleNext]_exampleVars

-----------------------------------------------------------------------------
\* "A crash mid-write must not truncate the file to a partial cursor": whatever
\* moment the process is killed at, the state file is absent or whole, and what
\* it holds is a state whose changes some process had merged before.
SavedStateIsMerged == file # NoFile => file \in merged

\* Over any number of processes the saved cursor keeps to one plan, although
\* the list may put another one first at the next start, and never falls back.
SavedForward == file \in SyncState => /\ file' \in SyncState
                                      /\ file'.plan = file.plan
                                      /\ file'.cursor >= file.cursor
SavedCursorAdvances == [][SavedForward]_file

\* A process that started without a saved state holds a snapshot of its plan.
FirstProcessIsSnapshot == proc # "down" /\ ~resumed => StoreIsSnapshot

\* "Persist the SyncState and the next process resumes exactly where this one
\* left off": after a restart, too, the store is the plan at the cursor.
ResumesExactly == proc # "down" => StoreIsSnapshot
=============================================================================
