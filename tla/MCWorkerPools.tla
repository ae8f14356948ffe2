--------------------------- MODULE MCWorkerPools ---------------------------
(***************************************************************************)
(* TLC instance of the two pools of worker threads: RemoteFetch, in kidobo *)
(* itself, and VmMatrix, in its end-to-end tool.  They share no state; a   *)
(* behaviour is one of either, chosen in the beginning, and the variables  *)
(* of the other keep one value.                                            *)
(***************************************************************************)
EXTENDS RemoteFetch, TLC

CONSTANTS
  None, Runs, Targets, Required, Selections, MaxParallel, MaxFaults,
  a, b, c, x, y, r1, r2, debian, ubuntu

VARIABLES
  pool,  \* "feeds" or "guests"
  vm, retained, manifest, document, report, step, option, lock, stop, left, guest,
  accepted, failure, faults, passed

-----------------------------------------------------------------------------
(***************************************************************************)
(* Chunks of two and three feeds, one of them configured twice.            *)
(***************************************************************************)
MCConfigured == {<<>>, <<a, a, b, c>>}
MCBodies == {{x}, {x, y}}

(***************************************************************************)
(* A required target and an advisory one, at the same time or one after    *)
(* the other; both selected or the advisory one.  The runs are             *)
(* interchangeable.                                                        *)
(***************************************************************************)
MCTargets == <<debian, ubuntu>>
MCRequired == {debian}
MCSelections == {{debian, ubuntu}, {ubuntu}}

Matrix == INSTANCE VmMatrix WITH pc <- step, cancelled <- stop, worker <- guest, results <- accepted

matrixVars == <<vm, retained, manifest, document, report, step, option, lock, stop, left, guest,
                accepted, failure, faults, passed>>

ASSUME MatrixConstants == Matrix!MatrixAssumption

Interchangeable == Permutations(Runs)

-----------------------------------------------------------------------------
NoMatrix ==
  /\ vm = None /\ retained = None /\ manifest = None /\ document = None /\ report = None
  /\ step = None /\ option = None /\ lock = None /\ stop = None /\ left = None /\ guest = None /\ accepted = None
  /\ failure = None /\ faults = None /\ passed = None

NoFetch ==
  /\ urls = <<>> /\ unique = <<>> /\ cpus = 1 /\ cancelled = FALSE
  /\ cache = [u \in Urls |-> [state |-> "absent", networks |-> {}]]
  /\ pc = "done" /\ first = 0 /\ nextIdx = 1 /\ worker = [w \in Workers |-> Asleep]
  /\ results = <<>> /\ got = [u \in Urls |-> NoResult]
  /\ observations = <<>> /\ aggregate = {} /\ pending = <<>> /\ outcome = "none"

MCInit ==
  \/ pool = "feeds" /\ Init /\ NoMatrix
  \/ pool = "guests" /\ Matrix!Init /\ NoFetch

MCNext ==
  \/ pool = "feeds" /\ Next /\ UNCHANGED <<pool, matrixVars>>
  \/ pool = "guests" /\ Matrix!Next /\ UNCHANGED <<pool, vars>>

MCSpec == MCInit /\ [][MCNext]_<<pool, vars, matrixVars>>

-----------------------------------------------------------------------------
\* No guest of the end-to-end tool is lost, whatever run it was created by, and
\* a report that opens the release gate has earned it.
GuestsAndGateAreSafe ==
  pool = "guests" => Matrix!NothingLeftBehind /\ Matrix!GateIsEarned
=============================================================================
