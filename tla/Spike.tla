------------------------------- MODULE Spike -------------------------------
(***************************************************************************)
(* The two-process HPX island of experiments 53 to 60: a root, a connector *)
(* that joins it, and the directory of marker files through which both     *)
(* talk to the Python driver that started them.  The driver sees only exit *)
(* codes and files.  A clean root has its action answered, tells the       *)
(* connector, waits until it left and finalizes; a failure root loses its  *)
(* connector, writes what it saw and idles until it is killed.             *)
(*                                                                         *)
(* Every wait of these programs has a deadline, but for one of experiment  *)
(* 60 (TwoNode!_root_wait).  A wait for what cannot happen any more ends   *)
(* by its timeout; every other wait that times out, and each crash,        *)
(* failing call, late file or process that survives SIGKILL, counts in     *)
(* faults.                                                                 *)
(***************************************************************************)
EXTENDS Naturals, Sequences, FiniteSets

CONSTANTS MaxFaults

VARIABLES program,  \* the Python program that runs
          step,     \* its next step, an index into its script
          pc,       \* where it is inside that step
          kind,     \* connector kind of the current island
          root,     \* the root process of the current island
          conn,     \* its connector process
          agas,     \* the root's AGAS lists the connector
          files,    \* marker files of the current island
          res,      \* what the root wrote into its result file
          old,      \* live processes of earlier islands: <<island, role>>
          reg,      \* islands whose process handles the driver keeps
          obs,      \* local variables of the step in progress
          got,      \* facts the driver recorded: <<island, fact>>
          verdict,  \* "none", or the program's overall
          faults    \* how many things departed from the expected course

island == <<kind, root, conn, agas, files, res>>
driver == <<program, step, pc, old, reg, obs, got, verdict>>
vars == <<program, step, pc, kind, root, conn, agas, files, res, old, reg, obs, got, verdict, faults>>

Fault == faults < MaxFaults /\ faults' = faults + 1
Expected == UNCHANGED faults
Over(hopeless) == IF hopeless THEN Expected ELSE Fault    \* a wait times out

RootLive == {"boot", "ready", "two", "served", "alone", "idle", "finalizing", "final"}
ConnLive == {"boot", "probed", "joined", "leaving", "left"}
Live(p) == p \in RootLive \cup ConnLive
Dead(p) == ~Live(p) /\ p # "none"
Failing == kind # "clean"

\* The programs whose connector first probes the root's port, whose clean root
\* keeps an unproved result to itself, and whose root is meant to idle out.
Preprobing == {"a2b57", "rayfree58", "ray58", "control60"}
Discreet == {"exp54", "exp55", "sleep55"}

-----------------------------------------------------------------------------
(* The root.                                                               *)

RootGoes(from, to, facts, markers) ==
    /\ root = from /\ root' = to
    /\ res' = res \cup facts /\ files' = files \cup markers
    /\ UNCHANGED <<kind, conn, agas>>

RootBoots == RootGoes("boot", "ready", {}, {"root.ready"}) /\ Expected

\* wait_two: the connector is listed, or the wait is over.
RootWaitsTwo ==
    \/ agas /\ RootGoes("ready", "two", {"two"}, {}) /\ Expected
    \/ ~agas /\ RootGoes("ready", "alone", {}, {}) /\ Over(Dead(conn) \/ (conn = "none" /\ pc # "ready"))

\* The action of a failure root begins on the connector.
ActionStarts ==
    /\ root = "two" /\ Failing /\ conn = "joined" /\ "action_started" \notin files
    /\ files' = files \cup {"action_started"} /\ Expected
    /\ UNCHANGED <<kind, root, conn, agas, res>>

\* The clean root's action is answered and proved, or it fails.
RootProbes ==
    /\ ~Failing
    /\ \/ conn = "joined" /\ RootGoes("two", "served", {"proved"}, {"served1"}) /\ Expected
       \/ RootGoes("two", "alone", {}, {}) /\ Over(conn # "joined")

\* wait_id_absent: the connector left, or the wait is over.
RootWaitsLeave ==
    \/ ~agas /\ RootGoes("served", "alone", {"leave"}, {}) /\ Expected
    \/ agas /\ RootGoes("served", "alone", {}, {}) /\ Over(Dead(conn))

\* The clean root writes its result and finalizes.
RootReports ==
    /\ ~Failing /\ Expected
    /\ RootGoes("alone", "finalizing", {},
                IF program \in Discreet /\ "proved" \notin res THEN {} ELSE {"result"})

\* The preflight of experiment 55 wants a root that idles out before its
\* connector crashes; elsewhere that is out of the ordinary.
Unplanned == Over(kind = "preflight")

\* The failure root's long action is lost, returns, or was never dispatched;
\* it writes the witness and idles; the idle cap ends that.
RootWitnesses ==
    /\ Failing
    /\ \/ conn # "joined" /\ RootGoes("two", "idle", {"lost"}, {"result"}) /\ Expected
       \/ conn = "joined" /\ RootGoes("two", "idle", {}, {"result"}) /\ Unplanned
       \/ RootGoes("alone", "idle", {}, {"result"}) /\ Expected
RootIdlesOut ==
    RootGoes("idle", "finalizing", {}, {"idle_cap"}) /\ Unplanned

\* hpx::finalize waits for every locality AGAS lists.  Without the connector
\* it ends; with it the root may hang, or end in whatever way.
RootFinalizes ==
    \/ ~agas /\ RootGoes("finalizing", "final", {}, {"finalize_done"}) /\ Expected
    \/ agas /\ RootGoes("finalizing", "final", {}, {"finalize_done"}) /\ Unplanned
    \/ agas /\ RootGoes("finalizing", "err", {}, {}) /\ Unplanned
RootExits == RootGoes("final", "exit0", {}, {}) /\ Expected

-----------------------------------------------------------------------------
(* The connector.                                                          *)

ConnGoes(from, to, markers) ==
    /\ conn = from /\ conn' = to /\ files' = files \cup markers
    /\ UNCHANGED <<kind, root, res>>

RootListens == root \in RootLive \ {"boot"}
Preprobe ==
    /\ program \in Preprobing /\ UNCHANGED agas
    /\ \/ RootListens /\ ConnGoes("boot", "probed", {"preprobe"}) /\ Expected
       \/ ConnGoes("boot", "err", {"unjoined"}) /\ Over(~Live(root))
\* hpx::start in connect mode joins, or fails and the connector exits with 2.
Joins ==
    LET from == IF program \in Preprobing THEN "probed" ELSE "boot"
    IN  \/ RootListens /\ ConnGoes(from, "joined", {"joined1"}) /\ agas' = TRUE /\ Expected
        \/ ConnGoes(from, "err", {"unjoined"}) /\ UNCHANGED agas /\ Over(~Live(root))

\* A clean connector leaves when it is told it was served, or impatiently.
Leaves ==
    /\ kind = "clean" /\ agas' = FALSE
    /\ ConnGoes("joined", "leaving", {})
    /\ Over("served1" \in files \/ root \notin {"ready", "two"})
\* disconnect and stop return or throw; the marker says which, then it exits.
Reports ==
    /\ UNCHANGED agas
    /\ \/ ConnGoes("leaving", "left", {"disconnected1", "disc_clean"}) /\ Expected
       \/ ConnGoes("leaving", "left", {"disconnected1"}) /\ Fault
ConnExits ==
    /\ UNCHANGED agas /\ Expected
    /\ ConnGoes("left", IF "disc_clean" \in files THEN "exit0" ELSE "exit1", {})

\* A self-crashing connector aborts; a victim outlives its idle time.
SelfCrash == kind \in {"self_crash", "preflight"} /\ ConnGoes("joined", "abort", {}) /\ UNCHANGED agas /\ Expected
VictimEnds == kind = "victim" /\ ConnGoes("joined", "exit0", {}) /\ agas' = FALSE /\ Fault

-----------------------------------------------------------------------------

\* A process dies of its own accord.
Crash ==
    /\ Fault /\ UNCHANGED <<kind, agas, files, res>>
    /\ \/ root \in RootLive /\ root' = "err" /\ UNCHANGED conn
       \/ conn \in ConnLive /\ conn' = "abort" /\ UNCHANGED root

RootSteps == \/ RootBoots \/ RootWaitsTwo \/ ActionStarts \/ RootProbes \/ RootWaitsLeave
             \/ RootReports \/ RootWitnesses \/ RootIdlesOut \/ RootFinalizes \/ RootExits
ConnSteps == Preprobe \/ Joins \/ Leaves \/ Reports \/ ConnExits \/ SelfCrash \/ VictimEnds

\* What an earlier island left running may still end by itself.
OldEnds == \E p \in old : old' = old \ {p} /\ UNCHANGED <<program, step, pc, reg, obs, got, verdict>>
                          /\ UNCHANGED island /\ Expected

Processes == ((RootSteps \/ ConnSteps) /\ UNCHANGED driver) \/ OldEnds
Mishaps == Crash /\ UNCHANGED driver

\* Nothing more happens on the island unless something goes wrong.
Quiet == ~ENABLED ((RootSteps \/ ConnSteps) /\ Expected)

-----------------------------------------------------------------------------
(* What the drivers have in common.                                        *)

NoObs == [look |-> 0, n |-> 0, dead |-> FALSE, disc |-> FALSE, rootrc |-> "none",
          clean |-> FALSE, found |-> "none", ok |-> FALSE]

SpikeInit(p) ==
    /\ program = p /\ step = 1 /\ pc = "call" /\ kind = "clean"
    /\ root = "none" /\ conn = "none" /\ agas = FALSE /\ files = {} /\ res = {}
    /\ old = {} /\ reg = {} /\ obs = NoObs /\ got = {} /\ verdict = "none"
    /\ faults = 0

Has(i, f) == <<i, f>> \in got
HasAll(i, fs) == \A f \in fs : Has(i, f)
Facts(i, fs) == {<<i, f>> : f \in fs}
If(cond, f) == IF cond THEN {f} ELSE {}

\* The processes of the current island that still run.
Running(i) == If(Live(root), <<i, "root">>) \cup If(Live(conn), <<i, "conn">>)

\* A new island in a fresh directory; what runs of the last one is left behind.
Popen(last, k) ==
    /\ kind' = k /\ root' = "boot" /\ conn' = "none" /\ agas' = FALSE
    /\ files' = {} /\ res' = {} /\ old' = old \cup Running(last)

\* _wait_for_file: a marker appears, or its writer is dead, or the wait ends.
WaitFile(markers, proc, ok) ==
    \/ ok /\ markers \cap files # {} /\ Expected
    \/ ~ok /\ markers \cap files = {} /\ Over(Dead(proc) \/ Quiet)

\* Faulty variant: a wait for an exit that has no deadline.
WaitExitForever(proc, ok) == (ok /\ Dead(proc) /\ Expected) \/ (~ok /\ proc = "none" /\ Expected)

\* proc.wait or a polling loop: the process has exited, or the wait ends.
WaitExit(proc, ok) ==
    \/ ok /\ Dead(proc) /\ Expected
    \/ ~ok /\ proc = "none" /\ Expected
    \/ ~ok /\ Live(proc) /\ Over(Quiet)

\* SIGKILL to the process group of what still runs; by a fault it survives.
Killed(p) == IF Live(p) THEN "killed" ELSE p
KillBoth ==
    \/ root' = Killed(root) /\ conn' = Killed(conn) /\ Expected
    \/ Live(root) /\ Fault /\ conn' = Killed(conn) /\ UNCHANGED root
    \/ Live(conn) /\ Fault /\ root' = Killed(root) /\ UNCHANGED conn

NextStep == step' = step + 1 /\ pc' = "call"
Raise == pc' = "raised" /\ UNCHANGED step
=============================================================================
