---------------------------- MODULE PyAne_proofs ----------------------------
(***************************************************************************)
(* Proofs about PyAne for any number of objects and of addresses that      *)
(* malloc may give out.  The invariant says whose table holds what is      *)
(* live: that of exactly one _Driver whose callback is still to run.       *)
(***************************************************************************)
EXTENDS PyAne, TLAPS

PyTypeOK ==
  /\ obj \in [Models -> {"new", "driver", "parse", "ready", "gone"}]
  /\ handle \in [Models -> Addrs \cup {None}]
  /\ handles \in [Models -> SUBSET Addrs]
  /\ atexit \subseteq Models /\ exiting \in BOOLEAN
  /\ live \subseteq Addrs /\ bad \in BOOLEAN /\ misused \subseteq Models

(* A network is live iff a callback that has not run will free it, and     *)
(* then only one will.                                                     *)
TableInv ==
  /\ \A a \in Addrs : a \in live <=> \E m \in atexit : a \in handles[m]
  /\ \A m, n \in atexit : m # n => handles[m] \cap handles[n] = {}

(* Until the interpreter exits, an object that got as far as a _Driver has *)
(* its callback registered, and one that got a network has it in its table. *)
ObjInv ==
  /\ \A m \in Models : obj[m] \in {"new", "driver"} => handles[m] = {}
  /\ \A m \in Models : obj[m] = "new" => m \notin atexit
  /\ \A m \in Models :
       ~ exiting /\ obj[m] \in {"driver", "parse", "ready"} => m \in atexit
  /\ \A m \in Models :
       obj[m] \in {"parse", "ready"} => handle[m] \in handles[m]

(* Who met a freed network has been made, and its callback has run. *)
UseInv ==
  /\ ~ bad
  /\ \A m \in misused : obj[m] # "new" /\ m \notin atexit

PyInv == PyTypeOK /\ TableInv /\ ObjInv /\ UseInv
-----------------------------------------------------------------------------
(* A step of an object, of the interpreter or of a callback keeps it.      *)
LEMMA PyStepInv == ASSUME PyInv, [Next]_vars PROVE PyInv'
<1> USE NoneAssumption DEF PyInv
<1>1. ASSUME NEW m \in Models, Driver(m) PROVE PyInv'
  <2>1. PyTypeOK' BY <1>1 DEF PyTypeOK, Driver
  <2>2. TableInv' BY <1>1 DEF PyTypeOK, TableInv, ObjInv, Driver
  <2>3. ObjInv' BY <1>1 DEF PyTypeOK, ObjInv, Driver
  <2>4. UseInv' BY <1>1 DEF PyTypeOK, TableInv, ObjInv, UseInv,
     Driver
  <2>5. QED BY <2>1, <2>2, <2>3, <2>4
<1>2. ASSUME NEW m \in Models, NEW a \in Addrs, Register(m, a) PROVE PyInv'
  <2>1. PyTypeOK' BY <1>2 DEF PyTypeOK, Register
  <2>2. TableInv' BY <1>2 DEF PyTypeOK, TableInv, ObjInv, Register
  <2>3. ObjInv' BY <1>2 DEF PyTypeOK, ObjInv, Register
  <2>4. UseInv' BY <1>2 DEF PyTypeOK, TableInv, ObjInv, UseInv,
     Register
  <2>5. QED BY <2>1, <2>2, <2>3, <2>4
<1>3. ASSUME NEW m \in Models, RegisterFail(m) PROVE PyInv'
  <2>1. PyTypeOK' BY <1>3 DEF PyTypeOK, RegisterFail
  <2>2. TableInv' BY <1>3 DEF PyTypeOK, TableInv, ObjInv, RegisterFail
  <2>3. ObjInv' BY <1>3 DEF PyTypeOK, ObjInv, RegisterFail
  <2>4. UseInv' BY <1>3 DEF PyTypeOK, TableInv, ObjInv, UseInv,
     RegisterFail
  <2>5. QED BY <2>1, <2>2, <2>3, <2>4
<1>4. ASSUME NEW m \in Models, Parse(m) PROVE PyInv'
  <2>1. PyTypeOK' BY <1>4 DEF PyTypeOK, Parse
  <2>2. TableInv' BY <1>4 DEF PyTypeOK, TableInv, ObjInv, Parse
  <2>3. ObjInv' BY <1>4 DEF PyTypeOK, ObjInv, Parse
  <2>4. UseInv' BY <1>4 DEF PyTypeOK, TableInv, ObjInv, UseInv,
     Parse
  <2>5. QED BY <2>1, <2>2, <2>3, <2>4
<1>5. ASSUME NEW m \in Models, Drop(m) PROVE PyInv'
  <2>1. PyTypeOK' BY <1>5 DEF PyTypeOK, Drop
  <2>2. TableInv' BY <1>5 DEF PyTypeOK, TableInv, ObjInv, Drop
  <2>3. ObjInv' BY <1>5 DEF PyTypeOK, ObjInv, Drop
  <2>4. UseInv' BY <1>5 DEF PyTypeOK, TableInv, ObjInv, UseInv,
     Drop
  <2>5. QED BY <2>1, <2>2, <2>3, <2>4
<1>6. ASSUME NEW m \in Models, Predict(m) PROVE PyInv'
  <2>1. PyTypeOK' BY <1>6 DEF PyTypeOK, Predict
  <2>2. TableInv' BY <1>6 DEF PyTypeOK, TableInv, ObjInv, Predict
  <2>3. ObjInv' BY <1>6 DEF PyTypeOK, ObjInv, Predict
  <2>4. UseInv' BY <1>6 DEF PyTypeOK, TableInv, ObjInv, UseInv,
     Predict
  <2>5. QED BY <2>1, <2>2, <2>3, <2>4
<1>7. ASSUME NEW m \in Models, Cleanup(m) PROVE PyInv'
  <2>1. PyTypeOK' BY <1>7 DEF PyTypeOK, Cleanup
  <2>2. TableInv' BY <1>7 DEF PyTypeOK, TableInv, ObjInv, Cleanup
  <2>3. ObjInv' BY <1>7 DEF PyTypeOK, ObjInv, Cleanup
  <2>4. UseInv' BY <1>7 DEF PyTypeOK, TableInv, ObjInv, UseInv,
     Cleanup
  <2>5. QED BY <2>1, <2>2, <2>3, <2>4
<1>8. CASE Exit
  BY <1>8 DEF PyTypeOK, TableInv, ObjInv, UseInv, Exit
<1>9. CASE UNCHANGED vars
  BY <1>9 DEF PyTypeOK, TableInv, ObjInv, UseInv, vars
<1>10. CASE Ended
  BY <1>9, <1>10 DEF Ended
<1>11. QED
  BY <1>1, <1>2, <1>3, <1>4, <1>5, <1>6, <1>7, <1>8, <1>9, <1>10 DEF Next

(* No object, no table, no network. *)
LEMMA PyInitInv == ASSUME Init PROVE PyInv
<1>1. PyTypeOK BY DEF Init, PyTypeOK
<1>2. TableInv /\ ObjInv /\ UseInv BY DEF Init, TableInv, ObjInv, UseInv
<1>3. QED BY <1>1, <1>2 DEF PyInv

(* Every live network is in the table of exactly one _Driver whose         *)
(* callback is still to run, whatever became of the object.                *)
THEOREM PyInvariance == Spec => []PyInv
<1>1. QED BY PyInitInv, PyStepInv, PTL DEF Spec

(* At exit every network that was ever made is freed, once: cleanup never  *)
(* frees a network that is not live, predict never meets one before its    *)
(* own cleanup, and when the last callback has run nothing is live.        *)
THEOREM EveryNetworkFreedOnce == Spec => []FreedOnce
<1>1. ASSUME PyInv PROVE FreedOnce
  BY <1>1 DEF PyInv, PyTypeOK, TableInv, UseInv, FreedOnce
<1>2. QED BY <1>1, PyInvariance, PTL

=============================================================================
