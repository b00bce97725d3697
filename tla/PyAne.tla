------------------------------- MODULE PyAne -------------------------------
(***************************************************************************)
(* The Python binding, bindings/python/python/ane/__init__.py with the     *)
(* calls it forwards through dylib/libane_python.c.  Every object of class *)
(* model has a _Driver of its own, whose table of handles is emptied by a  *)
(* callback that runs at exit; nothing frees a network before.  A network  *)
(* is the address of its struct, which malloc may give out again once it   *)
(* is free.  Once the interpreter exits, no more objects are made.         *)
(***************************************************************************)
EXTENDS FiniteSets, Naturals

CONSTANTS
  Models,   \* objects of class model
  Addrs,    \* addresses of networks
  None      \* no handle

ASSUME NoneAssumption == None \notin Addrs

VARIABLES
  obj,      \* "new", "driver", "parse", "ready", "gone": the object
  handle,   \* self.handle
  handles,  \* self.driver.handles
  atexit,   \* the objects whose _Driver registered its cleanup
  exiting,  \* the interpreter runs the callbacks
  live,     \* networks that libane has not freed
  bad,      \* history: ane_free of a network that is not live
  misused   \* history: objects whose predict met a network that is not live

vars == <<obj, handle, handles, atexit, exiting, live, bad, misused>>

Init ==
  /\ obj = [m \in Models |-> "new"] /\ handle = [m \in Models |-> None]
  /\ handles = [m \in Models |-> {}] /\ atexit = {} /\ exiting = FALSE
  /\ live = {} /\ bad = FALSE /\ misused = {}

-----------------------------------------------------------------------------
(* _Driver.__init__ *)
Driver(m) ==
  /\ ~ exiting /\ obj[m] = "new"
  /\ obj' = [obj EXCEPT ![m] = "driver"]
  /\ atexit' = atexit \cup {m}
  /\ UNCHANGED <<handle, handles, exiting, live, bad, misused>>

(* Mutant: the handle is not entered in the table. *)
RegisterNoEntry(m, a) ==
  /\ ~ exiting /\ obj[m] = "driver" /\ a \notin live
  /\ obj' = [obj EXCEPT ![m] = "parse"]
  /\ live' = live \cup {a}
  /\ handle' = [handle EXCEPT ![m] = a]
  /\ UNCHANGED <<handles, atexit, exiting, bad, misused>>

(* register, when pyane_init returns a network *)
Register(m, a) ==
  /\ ~ exiting /\ obj[m] = "driver" /\ a \notin live
  /\ obj' = [obj EXCEPT ![m] = "parse"]
  /\ live' = live \cup {a}
  /\ handle' = [handle EXCEPT ![m] = a]
  /\ handles' = [handles EXCEPT ![m] = @ \cup {a}]
  /\ UNCHANGED <<atexit, exiting, bad, misused>>

(* RuntimeError("driver error"): there is no object. *)
RegisterFail(m) ==
  /\ ~ exiting /\ obj[m] = "driver"
  /\ obj' = [obj EXCEPT ![m] = "gone"]
  /\ UNCHANGED <<handle, handles, atexit, exiting, live, bad, misused>>

(* The rest of model.__init__ parses the file and makes the buffers. *)
Parse(m) ==
  /\ ~ exiting /\ obj[m] = "parse"
  /\ obj' = [obj EXCEPT ![m] = "ready"]
  /\ UNCHANGED <<handle, handles, atexit, exiting, live, bad, misused>>

(* The file cannot be parsed, or the program drops the object; its         *)
(* _Driver lives on in the callback.                                       *)
Drop(m) ==
  /\ ~ exiting /\ obj[m] \in {"parse", "ready"}
  /\ obj' = [obj EXCEPT ![m] = "gone"]
  /\ handle' = [handle EXCEPT ![m] = None]
  /\ UNCHANGED <<handles, atexit, exiting, live, bad, misused>>

(* predict: send, exec and read with one handle.  Another callback, or a   *)
(* thread that still runs, may call it after the network is gone.          *)
Predict(m) ==
  /\ obj[m] = "ready"
  /\ misused' = IF handle[m] \in live THEN misused ELSE misused \cup {m}
  /\ UNCHANGED <<obj, handle, handles, atexit, exiting, live, bad>>

Exit ==
  /\ ~ exiting
  /\ exiting' = TRUE
  /\ UNCHANGED <<obj, handle, handles, atexit, live, bad, misused>>

(* cleanup: pyane_free of every handle of one table.  The table keeps its  *)
(* entries; a callback runs once.                                          *)
Cleanup(m) ==
  /\ exiting /\ m \in atexit
  /\ atexit' = atexit \ {m}
  /\ bad' = (bad \/ ~ handles[m] \subseteq live)
  /\ live' = live \ handles[m]
  /\ UNCHANGED <<obj, handle, handles, exiting, misused>>

(* The process has ended. *)
Ended == exiting /\ atexit = {} /\ UNCHANGED vars

Next ==
  \/ \E m \in Models : Driver(m) \/ RegisterFail(m) \/ Parse(m) \/ Drop(m)
                         \/ Predict(m) \/ Cleanup(m)
  \/ \E m \in Models, a \in Addrs : Register(m, a)
  \/ Exit \/ Ended

Spec == Init /\ [][Next]_vars

-----------------------------------------------------------------------------
(* At exit every network that was ever made is freed, also that of an      *)
(* object whose construction failed half-way or that the program dropped;  *)
(* none is freed twice, which the driver would not notice; and the cleanup *)
(* of one object never frees the network of another: predict meets a freed *)
(* network only after the cleanup of its own object.                       *)
FreedOnce ==
  /\ ~ bad
  /\ misused \cap atexit = {}
  /\ exiting /\ atexit = {} => live = {}
=============================================================================
