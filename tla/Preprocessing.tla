---------------------------- MODULE Preprocessing ---------------------------
(***************************************************************************)
(* The command line: process_args of src/preprocessing.c, which main of    *)
(* src/cli.c and of src/server.c call before anything else.  One iteration *)
(* of its loop is one action; which option comes next, and with which      *)
(* value, is up to the user.                                               *)
(*                                                                         *)
(* A value is what atoi or atof makes of the text that follows the option: *)
(* 0 for a text that is no number.  argv ends with a null pointer, which   *)
(* atoi is handed when an option that wants a value comes last: undefined, *)
(* and the process dies.                                                   *)
(***************************************************************************)
EXTENDS Integers

CONSTANTS
  Values,        \* the numbers the user may write
  MaxOptions     \* a bound on the options of one command line

VARIABLES
  params,        \* simulation_parameters_t
  outcome,       \* whether process_args is still at work, and how it ended
  given,         \* of each parameter, the value last given for it, or 0
  options        \* how many options were read

vars == <<params, outcome, given, options>>

Rates  == {"job_arrival_time_us", "printing_rate", "refill_rate"}
Counts == {"num_jobs", "queue_capacity", "printer_paper_capacity",
           "papers_required_lower_bound", "papers_required_upper_bound"}
Fields == Rates \union Counts

(* SIMULATION_DEFAULT_PARAMS.                                              *)
Defaults ==
  [job_arrival_time_us |-> 600000, papers_required_lower_bound |-> 5,
   papers_required_upper_bound |-> 20, queue_capacity |-> 15, printing_rate |-> 4,
   printer_paper_capacity |-> 100, refill_rate |-> 15, num_jobs |-> 20]

Outcomes == {"reading", "accepted", "rejected", "helped", "died"}

TypeOK ==
  /\ params \in [Fields -> Int]
  /\ outcome \in Outcomes
  /\ given \in [Fields -> Int]
  /\ options \in 0..MaxOptions

Init ==
  /\ params = Defaults
  /\ outcome = "reading"
  /\ given = [f \in Fields |-> 0]
  /\ options = 0

(* is_positive_integer and is_positive_double.                             *)
IsPositive(value) == value > 0

(* fmin and fmax of two ints are exact.                                    *)
SwapBounds(p) ==
  LET lower == p["papers_required_lower_bound"]
      upper == p["papers_required_upper_bound"]
  IN  IF lower > upper
        THEN [p EXCEPT !["papers_required_lower_bound"] = upper,
                       !["papers_required_upper_bound"] = lower]
        ELSE p

(* -arr gives jobs per second and is kept as microseconds between jobs; the*)
(* other options are kept as they are.                                     *)
Stored(f, value) ==
  IF f = "job_arrival_time_us" THEN 1000000 \div value ELSE value

NextOption ==
  /\ outcome = "reading"
  /\ options < MaxOptions
  /\ options' = options + 1

(* An option with a value that is positive; the bounds are put in order    *)
(* after every option.                                                     *)
TakeValue(f, value) ==
  /\ NextOption
  /\ IsPositive(value)
  /\ params' = SwapBounds([params EXCEPT ![f] = Stored(f, value)])
  /\ given' = [given EXCEPT ![f] = value]
  /\ UNCHANGED outcome

(* It is stored before it is looked at, but for the two rates that go      *)
(* through a local.                                                        *)
RejectValue(f, value) ==
  /\ NextOption
  /\ ~IsPositive(value)
  /\ params' = IF f \in {"job_arrival_time_us", "printing_rate"}
                 THEN params ELSE [params EXCEPT ![f] = value]
  /\ outcome' = "rejected"
  /\ UNCHANGED given

(* -debug.                                                                 *)
SetDebug ==
  /\ NextOption
  /\ params' = SwapBounds(params)
  /\ UNCHANGED <<outcome, given>>

(* -help leaves the program, an unknown option is an error, and a missing  *)
(* value is read through a null pointer.                                   *)
GiveUp ==
  /\ NextOption
  /\ outcome' \in {"helped", "rejected", "died"}
  /\ UNCHANGED <<params, given>>

EndOfArgs ==
  /\ outcome = "reading"
  /\ outcome' = "accepted"
  /\ UNCHANGED <<params, given, options>>

Next ==
  \/ \E f \in Fields, value \in Values : TakeValue(f, value) \/ RejectValue(f, value)
  \/ SetDebug
  \/ GiveUp
  \/ EndOfArgs

Spec == Init /\ [][Next]_vars

-----------------------------------------------------------------------------
(* Properties.                                                             *)

(* What process_args accepts is what the threads rely on (ParamsAssumption *)
(* of SimulationState): positive counts and ordered bounds, however often  *)
(* and in which order the options were given.                              *)
AcceptedParams ==
  outcome = "accepted" =>
    /\ \A f \in Counts : params[f] \in Nat \ {0}
    /\ params["papers_required_lower_bound"] <= params["papers_required_upper_bound"]

(* The program is called with "[-papers_lower papers_required_lower_bound]"*)
(* and "[-papers_upper papers_required_upper_bound]"                       *)
(* (src/preprocessing.c:16-17): two bounds that are given in order are     *)
(* the bounds of the simulation.                                           *)
BoundsAsGiven ==
  LET lower == given["papers_required_lower_bound"]
      upper == given["papers_required_upper_bound"]
  IN  outcome = "accepted" /\ 0 < lower /\ lower <= upper =>
        /\ params["papers_required_lower_bound"] = lower
        /\ params["papers_required_upper_bound"] = upper
=============================================================================
