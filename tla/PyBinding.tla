----------------------------- MODULE PyBinding -----------------------------
(***************************************************************************)
(* The CPython extension (python/qdb/_qdb.c): threads that open, use,      *)
(* share, close and drop Database objects.                                 *)
(*                                                                         *)
(* Code that runs with the GIL held is one atomic action.  Between         *)
(* Py_BEGIN_ALLOW_THREADS and Py_END_ALLOW_THREADS a thread stands at a    *)
(* point of its own and the others run.  Every method tests self->handle   *)
(* with the GIL held and evaluates it again as the argument of the library *)
(* call, after the GIL is released; a concurrent close() makes that second *)
(* read a data race, whose outcome is the value tested or the value now    *)
(* stored.                                                                 *)
(*                                                                         *)
(* The library is seen through its handles only: one is open from the      *)
(* return of qdb_open_err until it is passed to qdb_close, and the file    *)
(* lock refuses a second open of the same path.                            *)
(***************************************************************************)
EXTENDS Integers, FiniteSets

CONSTANTS
  Threads,   \* Python threads
  Objects,   \* addresses at which Database objects are created, each once
  Handles,   \* qdb_t pointers returned by qdb_open_err, each once
  Paths,     \* database files
  Guarded,   \* the objects whose users obey "one handle per thread or a Lock"
  NULL,      \* no handle, no thread, no object
  MaxCalls   \* bound on the number of library calls

ASSUME GuardedAssumption == Guarded \subseteq Objects
ASSUME NullAssumption == NULL \notin Handles \cup Threads \cup Objects

VARIABLES
  at,        \* thread -> where it stands; "python" is any Python code
  self,      \* thread -> the object its method was called on
  meth,      \* thread -> the method, "pop" or another one
  seen,      \* thread -> self->handle when db_require_open tested it
  using,     \* thread -> the handle it passed, or will pass, to the library
  msg,       \* thread -> its local qdb_msg_t holds allocated memory
  opens,     \* thread -> the path it is opening
  handle,    \* object -> its handle field
  refs,      \* object -> the threads holding references to it
  mutex,     \* object -> the thread holding the application's Lock for it
  lib,       \* handle -> "none", "open", "closed"
  closes,    \* handle -> how often it was passed to qdb_close
  file,      \* handle -> the path it was opened on
  calls      \* library calls made so far

vars == <<at, self, meth, seen, using, msg, opens, handle, refs, mutex,
          lib, closes, file, calls>>
frame == <<self, meth, seen, using, msg, opens>>
libvars == <<lib, closes, file>>

Points == {"python", "opening", "opened", "released", "inside", "back", "closing"}

Init ==
  /\ at = [t \in Threads |-> "python"]
  /\ self = [t \in Threads |-> NULL]
  /\ meth = [t \in Threads |-> "other"]
  /\ seen = [t \in Threads |-> NULL]
  /\ using = [t \in Threads |-> NULL]
  /\ msg = [t \in Threads |-> FALSE]
  /\ opens = [t \in Threads |-> NULL]
  /\ handle = [o \in Objects |-> NULL]
  /\ refs = [o \in Objects |-> {}]
  /\ mutex = [o \in Objects |-> NULL]
  /\ lib = [h \in Handles |-> "none"]
  /\ closes = [h \in Handles |-> 0]
  /\ file = [h \in Handles |-> NULL]
  /\ calls = 0

\* qdb_close: the handle and everything it points to are freed.
qdb_close(h) ==
  /\ lib' = [lib EXCEPT ![h] = "closed"]
  /\ closes' = [closes EXCEPT ![h] = @ + 1]
  /\ UNCHANGED file

-----------------------------------------------------------------------------
(* open() *)

\* The arguments are parsed and the GIL is released.
OpenCall(t, p) ==
  /\ at[t] = "python"
  /\ at' = [at EXCEPT ![t] = "opening"]
  /\ opens' = [opens EXCEPT ![t] = p]
  /\ UNCHANGED <<self, meth, seen, using, msg, handle, refs, mutex, libvars, calls>>

\* qdb_open_err takes the file lock, so no handle is open on the path.
OpenOk(t, h) ==
  /\ at[t] = "opening"
  /\ lib[h] = "none"
  /\ \A k \in Handles : lib[k] = "open" => file[k] # opens[t]
  /\ at' = [at EXCEPT ![t] = "opened"]
  /\ using' = [using EXCEPT ![t] = h]
  /\ lib' = [lib EXCEPT ![h] = "open"]
  /\ file' = [file EXCEPT ![h] = opens[t]]
  /\ opens' = [opens EXCEPT ![t] = NULL]
  /\ UNCHANGED <<self, meth, seen, msg, handle, refs, mutex, closes, calls>>

\* qdb_open_err fails: locked, or any other error; open() raises.
OpenError(t) ==
  /\ at[t] = "opening"
  /\ at' = [at EXCEPT ![t] = "python"]
  /\ opens' = [opens EXCEPT ![t] = NULL]
  /\ UNCHANGED <<self, meth, seen, using, msg, handle, refs, mutex, libvars, calls>>

\* With the GIL again: the object is allocated and takes the handle over ...
OpenReturn(t, o) ==
  /\ at[t] = "opened"
  /\ refs[o] = {} /\ handle[o] = NULL
  /\ at' = [at EXCEPT ![t] = "python"]
  /\ handle' = [handle EXCEPT ![o] = using[t]]
  /\ refs' = [refs EXCEPT ![o] = {t}]
  /\ using' = [using EXCEPT ![t] = NULL]
  /\ UNCHANGED <<self, meth, seen, msg, opens, mutex, libvars, calls>>

\* Mutant: the handle is forgotten when there is no memory for the object.
OpenNoMemory_Leak(t) ==
  /\ at[t] = "opened"
  /\ at' = [at EXCEPT ![t] = "python"]
  /\ UNCHANGED <<frame, handle, refs, mutex, libvars, calls>>

\* ... or tp_alloc fails and the handle is closed at once.
OpenNoMemory(t) ==
  /\ at[t] = "opened"
  /\ at' = [at EXCEPT ![t] = "python"]
  /\ qdb_close(using[t])
  /\ using' = [using EXCEPT ![t] = NULL]
  /\ UNCHANGED <<self, meth, seen, msg, opens, handle, refs, mutex, calls>>

-----------------------------------------------------------------------------
(* push, pop, ack, nack *)

\* "Use one handle per thread or protect with a Lock."
MayUse(t, o) ==
  /\ t \in refs[o]
  /\ o \in Guarded => mutex[o] = t \/ refs[o] = {t}

db_require_open(o) == handle[o] # NULL

\* The arguments are valid, the object is open; the GIL is released.
\* (A closed object raises ValueError, a bad argument TypeError, at once.)
Call(t, o, m) ==
  /\ at[t] = "python"
  /\ MayUse(t, o)
  /\ db_require_open(o)
  /\ calls < MaxCalls
  /\ calls' = calls + 1
  /\ at' = [at EXCEPT ![t] = "released"]
  /\ self' = [self EXCEPT ![t] = o]
  /\ meth' = [meth EXCEPT ![t] = m]
  /\ seen' = [seen EXCEPT ![t] = handle[o]]
  /\ UNCHANGED <<using, msg, opens, handle, refs, mutex, libvars>>

\* self->handle is evaluated without the GIL.  A NULL handle is refused by
\* the library's own argument test (QDB_ERR_INVAL).
Enter(t, h) ==
  /\ at[t] = "released"
  /\ h \in {seen[t], handle[self[t]]}
  /\ at' = [at EXCEPT ![t] = IF h = NULL THEN "back" ELSE "inside"]
  /\ using' = [using EXCEPT ![t] = h]
  /\ UNCHANGED <<self, meth, seen, msg, opens, handle, refs, mutex, libvars, calls>>

\* The library call returns; a successful pop has filled the message.
LibReturn(t, ok) ==
  /\ at[t] = "inside"
  /\ at' = [at EXCEPT ![t] = "back"]
  /\ msg' = [msg EXCEPT ![t] = ok /\ meth[t] = "pop"]
  /\ UNCHANGED <<self, meth, seen, using, opens, handle, refs, mutex, libvars, calls>>

\* Mutant: the error returns do not free the message.
message_from_c_NoFree(t, failed) ==
  msg' = [msg EXCEPT ![t] = @ /\ failed]

\* message_from_c frees the C message on each of its returns: when one of its
\* three allocations failed, and after the last copy.
message_from_c(t, failed) ==
  msg' = [msg EXCEPT ![t] = FALSE]

\* With the GIL again: a failed call raises the exception of its return code,
\* a successful pop builds the Message or runs out of memory.
Return(t, failed) ==
  /\ at[t] = "back"
  /\ at' = [at EXCEPT ![t] = "python"]
  /\ IF msg[t] THEN message_from_c(t, failed) ELSE UNCHANGED msg
  /\ self' = [self EXCEPT ![t] = NULL]
  /\ using' = [using EXCEPT ![t] = NULL]
  /\ seen' = [seen EXCEPT ![t] = NULL]
  /\ meth' = [meth EXCEPT ![t] = "other"]
  /\ UNCHANGED <<opens, handle, refs, mutex, libvars, calls>>

-----------------------------------------------------------------------------
(* close(), the end of a with block, and the destructor *)

\* Mutant: the object keeps its handle until qdb_close has returned.
Database_close_MarkLate(t, o) ==
  /\ db_require_open(o)
  /\ using' = [using EXCEPT ![t] = handle[o]]
  /\ at' = [at EXCEPT ![t] = "closing"]
  /\ UNCHANGED <<handle, libvars>>

\* The handle is taken out of the object before the GIL is released.  (On a
\* closed object nothing happens.)
Database_close(t, o) ==
  /\ db_require_open(o)
  /\ using' = [using EXCEPT ![t] = handle[o]]
  /\ handle' = [handle EXCEPT ![o] = NULL]
  /\ at' = [at EXCEPT ![t] = "closing"]
  /\ UNCHANGED libvars

Close(t, o) ==
  /\ at[t] = "python"
  /\ MayUse(t, o)
  /\ Database_close(t, o)
  /\ UNCHANGED <<self, meth, seen, msg, opens, refs, mutex, calls>>

\* Mutant: __exit__ calls qdb_close itself and keeps the handle.
Database_exit_Direct(t, o) ==
  /\ db_require_open(o)
  /\ qdb_close(handle[o])
  /\ UNCHANGED <<at, using, handle>>

\* __exit__ ignores the exception it is given and closes.
Database_exit(t, o) == Database_close(t, o)

Exit(t, o) ==
  /\ at[t] = "python"
  /\ MayUse(t, o)
  /\ Database_exit(t, o)
  /\ UNCHANGED <<self, meth, seen, msg, opens, refs, mutex, calls>>

\* qdb_close runs without the GIL; then the thread takes it back.
Closed(t) ==
  /\ at[t] = "closing"
  /\ at' = [at EXCEPT ![t] = "python"]
  /\ qdb_close(using[t])
  /\ using' = [using EXCEPT ![t] = NULL]
  /\ UNCHANGED <<self, meth, seen, msg, opens, handle, refs, mutex, calls>>

\* The last reference goes away: the destructor closes what is still open.
Database_dealloc(t, o) ==
  IF handle[o] # NULL
  THEN Database_close(t, o)
  ELSE UNCHANGED <<at, using, handle, libvars>>

\* A thread drops its references to an object.
DropRef(t, o) ==
  /\ at[t] = "python"
  /\ t \in refs[o]
  /\ mutex[o] # t
  /\ refs' = [refs EXCEPT ![o] = @ \ {t}]
  /\ IF refs[o] = {t}
     THEN Database_dealloc(t, o)
     ELSE UNCHANGED <<at, using, handle, libvars>>
  /\ UNCHANGED <<self, meth, seen, msg, opens, mutex, calls>>

-----------------------------------------------------------------------------
(* the application: sharing objects and its own locks *)

Share(t, u, o) ==
  /\ at[t] = "python"
  /\ t \in refs[o]
  /\ refs' = [refs EXCEPT ![o] = @ \cup {u}]
  /\ UNCHANGED <<at, frame, handle, mutex, libvars, calls>>

LockAcquire(t, o) ==
  /\ at[t] = "python"
  /\ t \in refs[o]
  /\ mutex[o] = NULL
  /\ mutex' = [mutex EXCEPT ![o] = t]
  /\ UNCHANGED <<at, frame, handle, refs, libvars, calls>>

LockRelease(t, o) ==
  /\ at[t] = "python"
  /\ mutex[o] = t
  /\ mutex' = [mutex EXCEPT ![o] = NULL]
  /\ UNCHANGED <<at, frame, handle, refs, libvars, calls>>

-----------------------------------------------------------------------------
OpenStep(t) ==
  \/ \E p \in Paths : OpenCall(t, p)
  \/ \E h \in Handles : OpenOk(t, h)
  \/ OpenError(t)
  \/ \E o \in Objects : OpenReturn(t, o)
  \/ OpenNoMemory(t)

CallStep(t) ==
  \/ \E o \in Objects, m \in {"pop", "other"} : Call(t, o, m)
  \/ \E h \in Handles \cup {NULL} : Enter(t, h)
  \/ \E ok \in BOOLEAN : LibReturn(t, ok)
  \/ \E failed \in BOOLEAN : Return(t, failed)

CloseStep(t) ==
  \/ \E o \in Objects : Close(t, o) \/ Exit(t, o) \/ DropRef(t, o)
  \/ Closed(t)

AppStep(t) ==
  \E o \in Objects :
    \/ \E u \in Threads : Share(t, u, o)
    \/ LockAcquire(t, o)
    \/ LockRelease(t, o)

Next == \E t \in Threads : OpenStep(t) \/ CallStep(t) \/ CloseStep(t) \/ AppStep(t)

Spec == Init /\ [][Next]_vars

-----------------------------------------------------------------------------
\* Every variable holds a value of its sort.
TypeOK ==
  /\ at \in [Threads -> Points]
  /\ self \in [Threads -> Objects \cup {NULL}]
  /\ meth \in [Threads -> {"pop", "other"}]
  /\ seen \in [Threads -> Handles \cup {NULL}]
  /\ using \in [Threads -> Handles \cup {NULL}]
  /\ msg \in [Threads -> BOOLEAN]
  /\ opens \in [Threads -> Paths \cup {NULL}]
  /\ handle \in [Objects -> Handles \cup {NULL}]
  /\ refs \in [Objects -> SUBSET Threads]
  /\ mutex \in [Objects -> Threads \cup {NULL}]
  /\ lib \in [Handles -> {"none", "open", "closed"}]
  /\ closes \in [Handles -> Nat]
  /\ file \in [Handles -> Paths \cup {NULL}]
  /\ calls \in Nat

\* No handle is ever passed to qdb_close twice, whichever threads call
\* close(), leave a with block or drop the last reference, in whatever order,
\* with or without the documented locking.
ClosedOnce == \A h \in Handles : closes[h] <= 1

\* Whoever holds an open handle: an object, a thread between qdb_open_err and
\* the allocation of the object, or a thread on its way to qdb_close.
Holders(h) ==
  {o \in Objects : handle[o] = h} \cup
  {t \in Threads : at[t] \in {"opened", "closing"} /\ using[t] = h}

\* An open handle has exactly one holder: no path through open(), close() and
\* the destructor leaks a handle (and with it the file lock, which would keep
\* the database from being opened again) or leaves it in two hands.
HeldByOne == \A h \in Handles : lib[h] = "open" => Cardinality(Holders(h)) = 1

\* For an object whose users obey the documented rule, a thread is inside the
\* library only with a handle that is open, and alone: nobody closes it, and
\* nobody else is inside through the same object.
DisciplinedUse ==
  \A t \in Threads :
    at[t] = "inside" /\ self[t] \in Guarded =>
      /\ lib[using[t]] = "open"
      /\ \A u \in Threads \ {t} :
           /\ at[u] = "inside" => self[u] # self[t]
           /\ at[u] = "closing" => using[u] # using[t]

\* The memory of a popped message lives no longer than the pop() call that
\* filled it, also when building the Python object fails half way.
MessageFreed ==
  \A t \in Threads : msg[t] => at[t] = "back" /\ meth[t] = "pop"
=============================================================================
