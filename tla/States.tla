------------------------------- MODULE States -------------------------------
(***************************************************************************)
(* The table of worker states shared by all goroutines of the stay mode:   *)
(* type States of main.go, its methods, and the arithmetic on its entries. *)
(*                                                                         *)
(* Every method takes the mutex of the table, of the entry, or of both, so *)
(* each is one atomic operation.  Entries are numbered from 1 here and     *)
(* from 0 in the code.                                                     *)
(***************************************************************************)
EXTENDS Integers, FiniteSets

CONSTANTS
  Devices,      \* the keys of conf.Devices
  NoDevice,     \* the name of an entry that is not in use
  MaxTimeout    \* MAX_TIMEOUT, in seconds (3600 in the code)

ASSUME StatesAssumption ==
  /\ IsFiniteSet(Devices) /\ Devices # {}
  /\ NoDevice \notin Devices
  /\ MaxTimeout \in Nat /\ MaxTimeout >= 2

NEW_       == 0
RUN        == 1
START      == 2
RESTARTERR == 3
ERR        == 8
FIN        == 9

Status == {NEW_, RUN, START, RESTARTERR, ERR, FIN}

\* total_devices: one channel, and in the end one entry, for each device.
N   == Cardinality(Devices)
Ids == 1 .. N

\* State.timeout of a new entry; a worker that connects goes back to it.
FirstTimeout == 2

-----------------------------------------------------------------------------
VARIABLES
  length,    \* len(rab.worker)
  name,      \* worker[i].name
  status,    \* worker[i].state
  timeout    \* worker[i].timeout

tableVars == <<length, name, status, timeout>>

TableInit ==
  /\ length = 0
  /\ name = [i \in Ids |-> NoDevice]
  /\ status = [i \in Ids |-> NEW_]
  /\ timeout = [i \in Ids |-> FirstTimeout]

TableTypeOK ==
  /\ length \in 0 .. N
  /\ name \in [Ids -> Devices \cup {NoDevice}]
  /\ status \in [Ids -> Status]
  /\ timeout \in [Ids -> FirstTimeout .. MaxTimeout]

AddWorker(d) ==
  /\ length' = length + 1
  /\ name' = [name EXCEPT ![length + 1] = d]
  /\ status' = [status EXCEPT ![length + 1] = NEW_]
  /\ timeout' = [timeout EXCEPT ![length + 1] = FirstTimeout]

\* Mutant of GetId: the break is missing, the last index is returned.
GetIdNoBreak(d) == length

\* The first entry of the device; the last entry of all when it has none.
GetId(d) ==
  LET hits == {i \in 1 .. length : name[i] = d}
  IN  IF hits = {} THEN length
      ELSE CHOOSE i \in hits : \A j \in hits : i <= j

GetByStatus(s) == Cardinality({i \in 1 .. length : status[i] = s})

\* An index past the end is refused and changes nothing.
SetStatus(i, s) ==
  status' = IF i <= length THEN [status EXCEPT ![i] = s] ELSE status

SetTimeout(i, t) == timeout' = [timeout EXCEPT ![i] = t]

\* Mutant of TimesPhi: the ratio is truncated before the product.
TimesIntPhi(t) == t

(***************************************************************************)
(* int(float64(t) * math.Phi), then the cap.  10946/6765 is a convergent   *)
(* of the golden ratio from below: the quotient is exact for t < 6765.     *)
(***************************************************************************)
TimesPhi(t) == (t * 10946) \div 6765

\* Mutant of Backoff: both tests against the cap are missing.
BackoffUncapped(t) == TimesPhi(t)

Backoff(t) ==
  IF t < MaxTimeout
  THEN IF TimesPhi(t) > MaxTimeout THEN MaxTimeout ELSE TimesPhi(t)
  ELSE t
=============================================================================
