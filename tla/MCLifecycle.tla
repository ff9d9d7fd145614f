---------------------------- MODULE MCLifecycle ----------------------------
(***************************************************************************)
(* The island supervisors of experiment 70 and the repetitions of          *)
(* experiments 65 to 69 on small bounds, all in one state space: Init      *)
(* picks the program and the driver, local or across nodes.                *)
(***************************************************************************)
EXTENDS Rep

CONSTANTS SuspicionBound, ObserveBound, ShortBound

Slices == {"slice1", "slice2", "slice3", "slice3b", "slice4"}
Repeated == {"exp65", "exp66", "exp67", "exp68", "exp69", "exp69_tput", "exp69_s3"}

\* Two faults in a run of a slice, one in a run of two repetitions.
FaultsOf == [p \in Slices |-> 2] @@ [p \in Repeated |-> 1]

\* The defaults: suspicion 5 s, observation 30 s, every short probe below 5 s.
ASSUME BoundsAssumption ==
    /\ MaxFaults \in [Slices \cup Repeated -> Nat]
    /\ {SuspicionBound, ObserveBound, ShortBound} \subseteq Nat
    /\ 0 < ShortBound /\ ShortBound < SuspicionBound /\ SuspicionBound < ObserveBound

S1 == INSTANCE Slice1
S2 == INSTANCE Slice2
S3 == INSTANCE Slice3
S4 == INSTANCE Slice4
R65 == INSTANCE Rep65
R66 == INSTANCE Rep66
R67 == INSTANCE Rep67
R68 == INSTANCE Rep68
R69 == INSTANCE Rep69

Init == \/ S1!Init \/ S2!Init \/ S3!Init \/ S4!Init
        \/ R65!Init \/ R66!Init \/ R67!Init \/ R68!Init \/ R69!Init

\* Experiment 66 hosts its second connector in a process of its own, and
\* experiment 65 has processes of its own.
Mishaps ==
    /\ pc # "ended" /\ UNCHANGED driverVars
    /\ Mishap(arm) \/ (program = "exp66" /\ R66!LeaveTooSlow)

Processes ==
    /\ UNCHANGED driverVars
    /\ \/ program = "exp65" /\ R65!Processes
       \/ program = "exp66" /\ R66!Processes
       \/ program = "slice3b" /\ S3!RootNative
       \/ program \notin {"exp65", "exp66"} /\ Progress(arm)

Driver ==
    \/ program = "slice1" /\ S1!Driver
    \/ program = "slice2" /\ S2!Driver
    \/ program \in {"slice3", "slice3b"} /\ S3!Driver
    \/ program = "slice4" /\ S4!Driver
    \/ program = "exp65" /\ R65!Driver
    \/ program = "exp66" /\ R66!Driver
    \/ program = "exp67" /\ R67!Driver
    \/ program = "exp68" /\ R68!Driver
    \/ R69!Driver

Ended == pc = "ended" /\ UNCHANGED vars
Next == Mishaps \/ Processes \/ Driver \/ Ended

\* The program's only thread runs, and a process takes the steps it takes of
\* its own accord; nothing is assumed of crashes and stalls.
Spec == Init /\ [][Next]_vars /\ WF_vars(Driver) /\ WF_vars(Processes)

-----------------------------------------------------------------------------
(* Properties.                                                             *)

\* Slice 3 alone may fail a sound run, for its own slowness: the waits between
\* the departure and its event add up to more than eval_publication_bound allows.
MissedOwnBound ==
    /\ program = "slice3" /\ overall = "fail" /\ class = "publication_unbounded"
    /\ \E r \in {"graceful", "loss"} : Has(r, "run", "prompt", FALSE)

\* Else a run in which nothing went wrong is never reported as a failure: no
\* gate asks for what a sound run does not record (rollup, eval_*, classify_rep).
CleanRunPasses ==
    overall \in {"pass", "fail", "crash"} /\ faults = 0 => overall = "pass" \/ MissedOwnBound

\* A failed verdict names what failed: its own class, or that of one of the
\* repetitions (rollup, build_aggregate).
FailureNamed ==
    overall = "fail" =>
        \/ program \in Slices /\ class # "pass"
        \/ program \in Repeated /\ class # "none"
        \/ \E i \in DOMAIN Reps : /\ <<Reps[i], "rep", "class">> \in DOMAIN rec
                                  /\ ~Has(Reps[i], "rep", "class", "pass")

\* Both: a verdict of failure is deserved and explained.
FailureExplained == CleanRunPasses /\ FailureNamed

\* What must have happened when a slice reports pass.
Evidence ==
    [slice1 |-> {<<"epoch0", "run", "worked">>, <<"epoch0", "b", "killed">>,
                 <<"epoch1", "run", "worked">>, <<"epoch1", "a", "left">>, <<"epoch1", "b", "left">>,
                 <<"epoch1", "root", "alone">>, <<"epoch1", "root", "clean">>},
     slice2 |-> {<<"island", "run", "work1">>, <<"island", "run", "work2">>,
                 <<"island", "a", "left">>, <<"island", "b", "left">>,
                 <<"island", "root", "alone">>, <<"island", "root", "clean">>},
     slice3 |-> {<<"graceful", "run", "worked">>, <<"loss", "run", "worked">>,
                 <<"graceful", "b", "left">>, <<"graceful", "root", "alone">>,
                 <<"graceful", "root", "clean">>},
     slice3b |-> {<<"native", "root", "verified">>, <<"native", "root", "fencing">>,
                  <<"native", "root", "force">>, <<"native", "root", "result">>},
     slice4 |-> {<<"normal", "run", "worked">>, <<"loss", "run", "worked">>,
                 <<"normal", "a", "left">>, <<"normal", "b", "left">>,
                 <<"normal", "root", "alone">>, <<"normal", "root", "clean">>,
                 <<"loss", "root", "suspected_gone">>}]

\* What must have happened in a repetition that is counted as passed; the
\* control arm of experiment 65 has no connector, its demand arm has one.
RepEvidence(r) ==
    {<<r, "root", "alone">>, <<r, "root", "clean">>}
    \cup (IF program = "exp65" /\ r = Reps[2] THEN {} ELSE {<<r, "run", "worked">>, <<r, "a", "left">>})
    \cup (IF program = "exp65" THEN {} ELSE {<<r, "b", "left">>})

\* A pass rests on what the processes really did, not on what the markers say:
\* the work was done, every connector left while the root served, the root
\* finalised alone, and nothing of the island is alive (eval_disposal,
\* eval_finalize, eval_final, classify_rep).
VerdictSound ==
    /\ program \in Slices /\ overall = "pass" =>
         /\ Evidence[program] \subseteq log
         /\ program # "slice3b" => NobodyLeft
         /\ \A e \in log : e[3] \notin {"overlap", "suspected_alive"}
    /\ program \in Repeated =>
         \A i \in DOMAIN Reps : Has(Reps[i], "rep", "class", "pass") => RepEvidence(Reps[i]) \subseteq log

\* Slice 2: a connector leaves only after the completion of the work was
\* published (publish_completion before stop_hpx).
CompletionBeforeDeparture ==
    \A k \in Conns : program = "slice2" /\ act[k] = "left" => "completion" \in files

\* Slice 3: the terminal event a survivor reads is true.  Graceful means that
\* b left; lost means that b's host is dead (classify_departure).
Slice3EventSound ==
    \A i \in S3!Terminals(arm) :
        LET label == S3!Events(arm)[i].label
        IN  /\ label = "graceful_departure" => <<arm, "b", "left">> \in log
            /\ label = "unexpected_loss" => act["b"] \in {"dying", "dead"}

\* Slice 4: a root that is alive is suspected only when its refresh loop
\* really was starved in that arm (collect_root_evidence, classify_root).
NoFalseSuspicion ==
    \A r \in {"normal", "loss"} :
        <<r, "root", "suspected_alive">> \in log => <<r, "root", "stalled">> \in log

\* What slices 3 and 4 say of a loss is true of the processes.
EventsTrue == Slice3EventSound /\ NoFalseSuspicion

\* A repetition starts from nothing: no root and no worker of the previous one
\* is running when the next root is launched (the finally clause of run_rep).
RepIsolation == program \in Repeated /\ pc = "launch" => ~RootAlive /\ Running = {}

\* The state keeps its types, and departures and restarts keep their order.
OrderKept == SupervisorTypeOK /\ CompletionBeforeDeparture /\ RepIsolation

\* Every program ends with a verdict, whatever crashes, stalls or expires.
Terminates == <>(pc = "ended")

\* In the end no process of an island is alive, whatever the verdict.
EverythingReaped == <>[]NobodyLeft
=============================================================================
