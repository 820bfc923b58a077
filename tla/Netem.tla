---------------------------------- MODULE Netem ----------------------------------
(* The slowed-down loopback device of the liveness test: the test has the      *)
(* script apply delay and loss to the ports of the validators and clears it in *)
(* a deferred call, which is not reached when the script fails or the test     *)
(* process dies. Several tests run one after the other on one host. What the   *)
(* script has set up is kept in a state file, written last. It deletes with    *)
(* tc ... || true: a deletion that fails is taken for done.                    *)
EXTENDS Lists

CONSTANTS
  PortLists,  \* the ports of the validators, in order, for each test
  MaxTests,   \* bound: tests on the host
  MaxBreaks   \* bound: steps in which calls of tc fail, processes that die

VARIABLES
  root,     \* root queue of the device: none, prio (of four bands), other
  netem,    \* the fourth band is slowed down
  filters,  \* the filters: whose packets go to the fourth band, at which place
  file,     \* the state file, empty or one record
  job,      \* where the test is
  ports,    \* of the test
  created,  \* of the script: it made the root queue
  began,    \* root when the test began, whether nothing was left behind then, and
            \* whether a deletion the test asked for has failed
  astray,   \* a script has left filters that no state file may know of
  tests, breaks

netemVars == <<root, netem, filters, file, job, ports, created, began, astray, tests, breaks>>
device == <<root, netem, filters>>
test == <<ports, tests>>

Init ==
  /\ root \in {"none", "prio", "other"}
  /\ netem = FALSE /\ filters = {} /\ file = <<>>
  /\ job = "idle" /\ ports = <<>> /\ created = FALSE
  /\ began = [root |-> root, clean |-> TRUE, missed |-> FALSE] /\ astray = FALSE
  /\ tests = 0 /\ breaks = 0

Break == breaks < MaxBreaks /\ breaks' = breaks + 1

(* One port per validator; a port that two of them have is taken once. *)
UniquePorts(list) ==
  LET taken[n \in 0..Len(list)] ==
        IF n = 0 THEN <<>>
        ELSE IF list[n] \in ToSet(taken[n - 1]) THEN taken[n - 1]
        ELSE Append(taken[n - 1], list[n])
  IN  taken[Len(list)]

Clean == ~netem /\ filters = {} /\ file = <<>>

ApplyLoopbackNetem(list) ==
  /\ job = "idle" /\ tests < MaxTests
  /\ tests' = tests + 1
  /\ ports' = UniquePorts(list)
  /\ began' = [root |-> root, clean |-> Clean, missed |-> FALSE]
  /\ job' = "apply"
  /\ UNCHANGED <<device, file, created, astray, breaks>>

(* Filters are deleted by their place in the list of ports. *)
FiltersBut(n) == {f \in filters : f.place > n}

SavedPorts == IF file = <<>> THEN 0 ELSE Len(file[1].ports)

(* A deletion that fails goes unseen. *)
Missed(stays) ==
  IF stays
  THEN Break /\ began' = [began EXCEPT !.missed = TRUE] /\ astray' = TRUE
  ELSE UNCHANGED <<began, astray, breaks>>

(* What an earlier call has left is deleted, as far as deleting works. *)
DropOld ==
  /\ job = "apply"
  /\ LET rest == FiltersBut(IF SavedPorts > Len(ports) THEN SavedPorts ELSE Len(ports)) IN
       \E held \in SUBSET (filters \ rest), slow \in {FALSE, netem} :
         /\ filters' = rest \cup held
         /\ netem' = slow
         /\ Missed(held # {} \/ slow)
  /\ job' = "root"
  /\ UNCHANGED <<root, file, test, created>>

(* The script ends with an error, and so does the test, with nothing undone. *)
Fails ==
  /\ job' = "idle"
  /\ astray' = TRUE

EnsureSupportedRootQdisc ==
  /\ job = "root" /\ root # "other"
  /\ created' = (root = "none") /\ root' = "prio"
  /\ job' = "netem"
  /\ UNCHANGED <<netem, filters, file, test, began, astray, breaks>>

UnsupportedRootQdisc ==
  /\ job = "root" /\ root = "other"
  /\ Fails
  /\ UNCHANGED <<device, file, test, began, created, breaks>>

SlowBand ==
  /\ job = "netem"
  /\ netem' = TRUE
  /\ job' = "filters"
  /\ UNCHANGED <<root, filters, file, test, began, created, astray, breaks>>

FilterOf(i) == [place |-> i, port |-> ports[i]]

(* Both filters of the next port, beside any that still has its place. *)
ApplyFilter ==
  /\ job = "filters"
  /\ \E i \in DOMAIN ports :
       /\ FilterOf(i) \notin filters /\ \A j \in 1..(i - 1) : FilterOf(j) \in filters
       /\ filters' = filters \cup {FilterOf(i)}
  /\ UNCHANGED <<root, netem, file, job, test, began, created, astray, breaks>>

(* Mutant of SaveState: the root queue is not remembered. *)
SaveState_root == <<[ports |-> ports, created |-> FALSE]>>

SaveState == <<[ports |-> ports, created |-> created]>>

Applied ==
  /\ job = "filters" /\ \A i \in DOMAIN ports : FilterOf(i) \in filters
  /\ file' = SaveState
  /\ job' = "slow"
  /\ UNCHANGED <<device, test, began, created, astray, breaks>>

CallFails ==
  /\ job \in {"root", "netem", "filters"} /\ Break
  /\ Fails
  /\ UNCHANGED <<device, file, test, began, created>>

(* go test runs out of time: no deferred call is made. *)
TestDies ==
  /\ job = "slow" /\ Break
  /\ job' = "idle"
  /\ UNCHANGED <<device, file, test, began, created, astray>>

(* Mutant of Kept: the filters stay. *)
Kept_all == filters

Kept == FiltersBut(SavedPorts)

(* A root queue that goes takes everything below it along. The state file is *)
(* removed and the script succeeds whatever could not be deleted.            *)
ClearLoopbackNetem ==
  /\ job = "slow"
  /\ LET own == file # <<>> /\ file[1].created IN
       \/ /\ own
          /\ root' = "none" /\ filters' = {} /\ netem' = FALSE
          /\ UNCHANGED <<began, astray, breaks>>
       \/ \E held \in SUBSET (filters \ Kept), slow \in {FALSE, netem} :
            /\ filters' = Kept \cup held
            /\ netem' = slow
            /\ Missed(own \/ held # {} \/ slow)
            /\ UNCHANGED root
  /\ file' = <<>>
  /\ job' = "cleared"
  /\ UNCHANGED <<test, created>>

NextTest ==
  /\ job = "cleared" /\ tests < MaxTests
  /\ job' = "idle"
  /\ UNCHANGED <<device, file, test, began, created, astray, breaks>>

Next ==
  \/ \E list \in PortLists : ApplyLoopbackNetem(list)
  \/ DropOld \/ EnsureSupportedRootQdisc \/ UnsupportedRootQdisc \/ SlowBand
  \/ ApplyFilter \/ Applied \/ CallFails \/ TestDies \/ ClearLoopbackNetem \/ NextTest

Spec == Init /\ [][Next]_netemVars

--------------------------------------------------------------------------------
Slowed == {f.port : f \in filters}

(* A test that runs slowed down has the packets of its validators slowed      *)
(* down, and those of nobody else unless a script ended before it wrote its   *)
(* file, or a deletion has failed. After a test that cleared up nothing is    *)
(* slow and the device is what it was, unless a deletion of its own failed,   *)
(* which the script does not report; a root queue left behind by an earlier   *)
(* test stays.                                                                *)
NetemTrue ==
  /\ job = "slow" =>
       /\ netem /\ ToSet(ports) \subseteq Slowed
       /\ ~astray => Slowed = ToSet(ports)
  /\ job = "cleared" =>
       /\ ~began.missed => ~netem
       /\ ~astray => filters = {}
       /\ began.clean /\ ~began.missed => root = began.root /\ filters = {}

================================================================================
