------------------------------ MODULE Sessions ------------------------------
(***************************************************************************)
(* What the stay mode promises of its devices, whatever goes on between    *)
(* monitor, supervisor and workers: that one worker at most collects at a  *)
(* device, that nobody is put back to a device that was stopped, and that  *)
(* nothing is stopped or over unless a signal asked for it.  It does not   *)
(* promise one session: a worker that gave its device up may still hold    *)
(* its own when the next one begins, and with inbound commands it does so  *)
(* for ever.  StayMode implements it (StayModeProps).                      *)
(***************************************************************************)
CONSTANTS
  Devices,   \* the keys of conf.Devices
  Workers    \* the goroutines that may be put to a device

VARIABLES
  crew,      \* the workers that have a device to collect from: one or none
  talking,   \* devices whose worker is in its command loop
  leaving,   \* devices whose earlier workers have not all closed their session
  stopped,   \* devices whose worker has taken the stop message
  asked,     \* a signal has asked for the end
  phase      \* "on", "over": no worker is started any more, or "gone"

sessionVars == <<crew, talking, leaving, stopped, asked, phase>>

Alive == phase # "gone"

SessionsInit ==
  /\ crew = [d \in Devices |-> {}]
  /\ talking = {} /\ leaving = {} /\ stopped = {}
  /\ asked = FALSE
  /\ phase = "on"

Ask ==
  /\ Alive
  /\ asked' = TRUE
  /\ UNCHANGED <<crew, talking, leaving, stopped, phase>>

\* A worker is put to a device that was not stopped and where nobody collects.
Begin(d, w) ==
  /\ phase = "on"
  /\ crew[d] = {} /\ d \notin stopped
  /\ \A e \in Devices : w \notin crew[e]
  /\ crew' = [crew EXCEPT ![d] = {w}]
  /\ UNCHANGED <<talking, leaving, stopped, asked, phase>>

\* Its session is set up and the command loop entered.
Connect(d) ==
  /\ Alive
  /\ crew[d] # {} /\ d \notin talking
  /\ talking' = talking \cup {d}
  /\ UNCHANGED <<crew, leaving, stopped, asked, phase>>

Stop(d) ==
  /\ Alive /\ asked
  /\ d \in talking /\ d \notin stopped
  /\ stopped' = stopped \cup {d}
  /\ UNCHANGED <<crew, talking, leaving, asked, phase>>

\* The worker gives its device up, for a failure or because it was stopped.
\* One that was in its command loop has yet to close its session.
End(d) ==
  /\ Alive
  /\ crew[d] # {}
  /\ crew' = [crew EXCEPT ![d] = {}]
  /\ talking' = talking \ {d}
  /\ leaving' = IF d \in talking THEN leaving \cup {d} ELSE leaving
  /\ UNCHANGED <<stopped, asked, phase>>

\* No earlier worker holds a session of the device any more.
Left(d) ==
  /\ Alive
  /\ d \in leaving
  /\ leaving' = leaving \ {d}
  /\ UNCHANGED <<crew, talking, stopped, asked, phase>>

Finish ==
  /\ phase = "on" /\ asked
  /\ phase' = "over"
  /\ UNCHANGED <<crew, talking, leaving, stopped, asked>>

\* The process ends, or is ended by one of its workers.
Leave ==
  /\ phase = "over" \/ (Alive /\ \E d \in Devices : crew[d] # {} \/ d \in leaving)
  /\ phase' = "gone"
  /\ UNCHANGED <<crew, talking, leaving, stopped, asked>>

SessionsNext ==
  \/ Ask \/ Finish \/ Leave
  \/ \E d \in Devices :
       \/ Connect(d) \/ Stop(d) \/ End(d) \/ Left(d)
       \/ \E w \in Workers : Begin(d, w)

SessionsSpec == SessionsInit /\ [][SessionsNext]_sessionVars
=============================================================================
