-------------------------- MODULE PyBindingProofs --------------------------
(***************************************************************************)
(* The handle of the Python binding, for any number of threads, objects,   *)
(* handles and files, proved from one inductive invariant.  It says who    *)
(* may hold an open handle (Ownership) and, for objects used by the        *)
(* documented rule, that nobody can take the handle away from a thread     *)
(* that is between its test and its return (Discipline).                   *)
(***************************************************************************)
EXTENDS PyBinding, FiniteSetTheorems, TLAPS

Holding(t) == at[t] \in {"opened", "closing"}
Calling(t) == at[t] \in {"released", "inside"}

\* Every open handle is held, every holder holds an open handle of its own,
\* and a handle was passed to qdb_close once exactly when it is closed.
Ownership ==
  /\ \A o \in Objects : handle[o] # NULL => lib[handle[o]] = "open"
  /\ \A t \in Threads : Holding(t) => using[t] \in Handles /\ lib[using[t]] = "open"
  /\ \A o, p \in Objects : handle[o] = handle[p] /\ handle[o] # NULL => o = p
  /\ \A t, u \in Threads : Holding(t) /\ Holding(u) /\ using[t] = using[u] => t = u
  /\ \A o \in Objects, t \in Threads : Holding(t) => handle[o] # using[t]
  /\ \A h \in Handles : lib[h] = "open" =>
       \/ \E o \in Objects : handle[o] = h
       \/ \E t \in Threads : Holding(t) /\ using[t] = h
  /\ \A h \in Handles : closes[h] = IF lib[h] = "closed" THEN 1 ELSE 0

\* A thread in a method of a guarded object still has the right to use it,
\* and the handle it tested is still the object's.
Discipline ==
  \A t \in Threads : Calling(t) /\ self[t] \in Guarded =>
    /\ MayUse(t, self[t])
    /\ seen[t] \in Handles
    /\ handle[self[t]] = seen[t]
    /\ at[t] = "inside" => using[t] = seen[t]

Calls ==
  \A t \in Threads : Calling(t) => self[t] \in Objects

PyInv == TypeOK /\ Ownership /\ Discipline /\ Calls
\* open() has parsed its arguments.
LEMMA OpenCallKeeps ==
  ASSUME PyInv, NEW t \in Threads, NEW p \in Paths,
         OpenCall(t, p)
  PROVE  PyInv'
<1>1. TypeOK'
  BY DEF PyInv, TypeOK, Points, frame, libvars, OpenCall
<1>2. Ownership'
  BY NullAssumption, SMTT(30) DEF PyInv, TypeOK, Ownership, Holding, frame, libvars, MayUse, OpenCall
<1>3. Discipline'
  BY NullAssumption, GuardedAssumption
  DEF PyInv, TypeOK, Ownership, Discipline, Calls, Calling, Holding, MayUse, frame, libvars, OpenCall
<1>4. Calls'
  BY DEF PyInv, TypeOK, Calls, Calling, frame, libvars, OpenCall
<1> QED
  BY <1>1, <1>2, <1>3, <1>4 DEF PyInv

\* qdb_open_err returns a fresh handle, which the thread holds.
LEMMA OpenOkKeeps ==
  ASSUME PyInv, NEW t \in Threads, NEW h \in Handles,
         OpenOk(t, h)
  PROVE  PyInv'
<1>1. TypeOK'
  BY DEF PyInv, TypeOK, Points, frame, libvars, OpenOk
<1>2. Ownership'
  BY NullAssumption, SMTT(60) DEF PyInv, TypeOK, Ownership, Holding, frame, libvars, MayUse, OpenOk
<1>3. Discipline'
  BY NullAssumption, GuardedAssumption
  DEF PyInv, TypeOK, Ownership, Discipline, Calls, Calling, Holding, MayUse, frame, libvars, OpenOk
<1>4. Calls'
  BY DEF PyInv, TypeOK, Calls, Calling, frame, libvars, OpenOk
<1> QED
  BY <1>1, <1>2, <1>3, <1>4 DEF PyInv

\* qdb_open_err fails.
LEMMA OpenErrorKeeps ==
  ASSUME PyInv, NEW t \in Threads,
         OpenError(t)
  PROVE  PyInv'
<1>1. TypeOK'
  BY DEF PyInv, TypeOK, Points, frame, libvars, OpenError
<1>2. Ownership'
  BY NullAssumption DEF PyInv, TypeOK, Ownership, Holding, frame, libvars, MayUse, OpenError
<1>3. Discipline'
  BY NullAssumption, GuardedAssumption
  DEF PyInv, TypeOK, Ownership, Discipline, Calls, Calling, Holding, MayUse, frame, libvars, OpenError
<1>4. Calls'
  BY DEF PyInv, TypeOK, Calls, Calling, frame, libvars, OpenError
<1> QED
  BY <1>1, <1>2, <1>3, <1>4 DEF PyInv

\* The new object, which nobody refers to yet, takes the handle over.
LEMMA OpenReturnKeeps ==
  ASSUME PyInv, NEW t \in Threads, NEW o \in Objects,
         OpenReturn(t, o)
  PROVE  PyInv'
<1>1. TypeOK'
  BY DEF PyInv, TypeOK, Points, frame, libvars, OpenReturn
<1>2. Ownership'
  BY NullAssumption DEF PyInv, TypeOK, Ownership, Holding, frame, libvars, MayUse, OpenReturn
<1>3. Discipline'
  BY NullAssumption, GuardedAssumption
  DEF PyInv, TypeOK, Ownership, Discipline, Calls, Calling, Holding, MayUse, frame, libvars, OpenReturn
<1>4. Calls'
  BY DEF PyInv, TypeOK, Calls, Calling, frame, libvars, OpenReturn
<1> QED
  BY <1>1, <1>2, <1>3, <1>4 DEF PyInv

\* No object could be allocated: the thread closes the handle it holds.
LEMMA OpenNoMemoryKeeps ==
  ASSUME PyInv, NEW t \in Threads,
         OpenNoMemory(t)
  PROVE  PyInv'
<1>1. TypeOK'
  <2>1. using[t] \in Handles
    BY DEF PyInv, Ownership, Holding, OpenNoMemory
  <2> QED
    BY <2>1 DEF PyInv, TypeOK, Points, OpenNoMemory, qdb_close
<1>2. Ownership'
  BY NullAssumption DEF PyInv, TypeOK, Ownership, Holding, frame, libvars, MayUse, OpenNoMemory, qdb_close
<1>3. Discipline'
  BY NullAssumption, GuardedAssumption
  DEF PyInv, TypeOK, Ownership, Discipline, Calls, Calling, Holding, MayUse, frame, libvars, OpenNoMemory, qdb_close
<1>4. Calls'
  BY DEF PyInv, TypeOK, Calls, Calling, frame, libvars, OpenNoMemory, qdb_close
<1> QED
  BY <1>1, <1>2, <1>3, <1>4 DEF PyInv

\* A method tests the handle and releases the GIL.
LEMMA CallKeeps ==
  ASSUME PyInv, NEW t \in Threads, NEW o \in Objects, NEW m \in {"pop", "other"},
         Call(t, o, m)
  PROVE  PyInv'
<1>1. TypeOK'
  BY DEF PyInv, TypeOK, Points, frame, libvars, Call, db_require_open
<1>2. Ownership'
  BY NullAssumption, SMTT(30) DEF PyInv, TypeOK, Ownership, Holding, frame, libvars, MayUse, Call, db_require_open
<1>3. Discipline'
  BY NullAssumption, GuardedAssumption
  DEF PyInv, TypeOK, Ownership, Discipline, Calls, Calling, Holding, MayUse, frame, libvars, Call, db_require_open
<1>4. Calls'
  BY DEF PyInv, TypeOK, Calls, Calling, frame, libvars, Call, db_require_open
<1> QED
  BY <1>1, <1>2, <1>3, <1>4 DEF PyInv

\* The handle is read again; for a guarded object both values agree.
LEMMA EnterKeeps ==
  ASSUME PyInv, NEW t \in Threads, NEW h \in Handles \cup {NULL},
         Enter(t, h)
  PROVE  PyInv'
<1>1. TypeOK'
  BY DEF PyInv, TypeOK, Points, frame, libvars, Enter
<1>2. Ownership'
  BY NullAssumption DEF PyInv, TypeOK, Ownership, Holding, frame, libvars, MayUse, Enter
<1>3. Discipline'
  BY NullAssumption, GuardedAssumption
  DEF PyInv, TypeOK, Ownership, Discipline, Calls, Calling, Holding, MayUse, frame, libvars, Enter
<1>4. Calls'
  BY DEF PyInv, TypeOK, Calls, Calling, frame, libvars, Enter
<1> QED
  BY <1>1, <1>2, <1>3, <1>4 DEF PyInv

\* The library call returns.
LEMMA LibReturnKeeps ==
  ASSUME PyInv, NEW t \in Threads, NEW ok \in BOOLEAN,
         LibReturn(t, ok)
  PROVE  PyInv'
<1>1. TypeOK'
  BY DEF PyInv, TypeOK, Points, frame, libvars, LibReturn
<1>2. Ownership'
  BY NullAssumption, SMTT(60) DEF PyInv, TypeOK, Ownership, Holding, frame, libvars, MayUse, LibReturn
<1>3. Discipline'
  BY NullAssumption, GuardedAssumption
  DEF PyInv, TypeOK, Ownership, Discipline, Calls, Calling, Holding, MayUse, frame, libvars, LibReturn
<1>4. Calls'
  BY DEF PyInv, TypeOK, Calls, Calling, frame, libvars, LibReturn
<1> QED
  BY <1>1, <1>2, <1>3, <1>4 DEF PyInv

\* The method returns to Python.
LEMMA ReturnKeeps ==
  ASSUME PyInv, NEW t \in Threads, NEW failed \in BOOLEAN,
         Return(t, failed)
  PROVE  PyInv'
<1>1. TypeOK'
  BY Zenon DEF PyInv, TypeOK, Points, frame, libvars, Return, message_from_c
<1>2. Ownership'
  BY NullAssumption, SMTT(60) DEF PyInv, TypeOK, Ownership, Holding, frame, libvars, MayUse, Return, message_from_c
<1>3. Discipline'
  BY NullAssumption, GuardedAssumption, SMTT(60)
  DEF PyInv, TypeOK, Ownership, Discipline, Calls, Calling, Holding, MayUse, frame, libvars, Return, message_from_c
<1>4. Calls'
  BY DEF PyInv, TypeOK, Calls, Calling, frame, libvars, Return, message_from_c
<1> QED
  BY <1>1, <1>2, <1>3, <1>4 DEF PyInv

\* An object gives its open handle to the thread that closes it.
LEMMA HandleTaken ==
  ASSUME PyInv, NEW t \in Threads, NEW o \in Objects,
         at[t] = "python", Database_close(t, o)
  PROVE  Ownership'
<1> DEFINE h == handle[o]
<1>1. h \in Handles /\ lib[h] = "open" /\ h # NULL
  BY NullAssumption DEF PyInv, TypeOK, Ownership, Database_close, db_require_open
<1>2. /\ at' = [at EXCEPT ![t] = "closing"]
      /\ using' = [using EXCEPT ![t] = h]
      /\ handle' = [handle EXCEPT ![o] = NULL]
      /\ lib' = lib /\ closes' = closes
  BY DEF Database_close, libvars
<1>3. \A p \in Objects : handle'[p] = IF p = o THEN NULL ELSE handle[p]
  BY <1>2 DEF PyInv, TypeOK
<1>4. \A u \in Threads : Holding(u)' <=> u = t \/ Holding(u)
  BY <1>2 DEF PyInv, TypeOK, Holding
<1>5. \A u \in Threads : using'[u] = IF u = t THEN h ELSE using[u]
  BY <1>2 DEF PyInv, TypeOK
<1>6. ~Holding(t)
  BY DEF Holding
<1>7. Ownership
  BY DEF PyInv
<1> HIDE DEF h
<1>8. h = handle[o]
  BY DEF h
<1> QED
  <2>1. \A p \in Objects : handle'[p] # NULL => lib'[handle'[p]] = "open"
    BY ONLY <1>2, <1>3, <1>7 DEF Ownership
  <2>2. \A u \in Threads : Holding(u)' => using'[u] \in Handles /\ lib'[using'[u]] = "open"
    BY ONLY <1>1, <1>2, <1>4, <1>5, <1>7 DEF Ownership
  <2>3. \A p, q \in Objects : handle'[p] = handle'[q] /\ handle'[p] # NULL => p = q
    BY ONLY <1>3, <1>7 DEF Ownership
  <2>4. \A u, v \in Threads : Holding(u)' /\ Holding(v)' /\ using'[u] = using'[v] => u = v
    BY ONLY <1>4, <1>5, <1>6, <1>7, <1>8 DEF Ownership
  <2>5. \A p \in Objects, u \in Threads : Holding(u)' => handle'[p] # using'[u]
    BY ONLY <1>1, <1>3, <1>4, <1>5, <1>7, <1>8, NullAssumption DEF Ownership
  <2>6. \A k \in Handles : lib'[k] = "open" =>
          \/ \E p \in Objects : handle'[p] = k
          \/ \E u \in Threads : Holding(u)' /\ using'[u] = k
    BY ONLY <1>1, <1>2, <1>3, <1>4, <1>5, <1>6, <1>7, <1>8 DEF Ownership
  <2>7. \A k \in Handles : closes'[k] = IF lib'[k] = "closed" THEN 1 ELSE 0
    BY ONLY <1>2, <1>7 DEF Ownership
  <2> QED
    BY ONLY <2>1, <2>2, <2>3, <2>4, <2>5, <2>6, <2>7 DEF Ownership, Holding

\* close() and __exit__ take the handle from the object.
LEMMA CloseDBKeeps ==
  ASSUME PyInv, NEW t \in Threads, NEW o \in Objects,
         Close(t, o) \/ Exit(t, o)
  PROVE  PyInv'
<1>1. TypeOK'
  BY SMTT(30) DEF PyInv, TypeOK, Points, frame, libvars, Close, Exit, Database_exit, Database_close, db_require_open
<1>2. Ownership'
  BY HandleTaken DEF Close, Exit, Database_exit
<1>3. Discipline'
  BY NullAssumption, GuardedAssumption, SMTT(60)
  DEF PyInv, TypeOK, Ownership, Discipline, Calls, Calling, Holding, MayUse, frame, libvars, Close, Exit, Database_exit, Database_close, db_require_open
<1>4. Calls'
  BY DEF PyInv, TypeOK, Calls, Calling, frame, libvars, Close, Exit, Database_exit, Database_close, db_require_open
<1> QED
  BY <1>1, <1>2, <1>3, <1>4 DEF PyInv

\* qdb_close runs on the handle the thread holds.
LEMMA ClosedKeeps ==
  ASSUME PyInv, NEW t \in Threads,
         Closed(t)
  PROVE  PyInv'
<1>1. TypeOK'
  <2>1. using[t] \in Handles
    BY DEF PyInv, Ownership, Holding, Closed
  <2> QED
    BY <2>1 DEF PyInv, TypeOK, Points, Closed, qdb_close
<1>2. Ownership'
  BY NullAssumption, SMTT(60) DEF PyInv, TypeOK, Ownership, Holding, frame, libvars, MayUse, Closed, qdb_close
<1>3. Discipline'
  BY NullAssumption, GuardedAssumption, SMTT(60)
  DEF PyInv, TypeOK, Ownership, Discipline, Calls, Calling, Holding, MayUse, frame, libvars, Closed, qdb_close
<1>4. Calls'
  BY DEF PyInv, TypeOK, Calls, Calling, frame, libvars, Closed, qdb_close
<1> QED
  BY <1>1, <1>2, <1>3, <1>4 DEF PyInv

\* A reference goes away, the last one with the destructor.
LEMMA DropRefKeeps ==
  ASSUME PyInv, NEW t \in Threads, NEW o \in Objects,
         DropRef(t, o)
  PROVE  PyInv'
<1>1. TypeOK'
  BY SMTT(30) DEF PyInv, TypeOK, Points, frame, libvars, DropRef, Database_dealloc, Database_close, db_require_open
<1>2. Ownership'
  <2>1. CASE refs[o] = {t} /\ handle[o] # NULL
    BY <2>1, HandleTaken DEF DropRef, Database_dealloc
  <2>2. CASE ~(refs[o] = {t} /\ handle[o] # NULL)
    <3>1. UNCHANGED <<at, using, handle, lib, closes>>
      BY <2>2 DEF DropRef, Database_dealloc, libvars
    <3> QED
      BY <3>1, SMTT(60) DEF PyInv, Ownership, Holding
  <2> QED
    BY <2>1, <2>2
<1>3. Discipline'
  BY NullAssumption, GuardedAssumption, SMTT(60)
  DEF PyInv, TypeOK, Ownership, Discipline, Calls, Calling, Holding, MayUse, frame, libvars, DropRef, Database_dealloc, Database_close, db_require_open
<1>4. Calls'
  BY DEF PyInv, TypeOK, Calls, Calling, frame, libvars, DropRef, Database_dealloc, Database_close, db_require_open
<1> QED
  BY <1>1, <1>2, <1>3, <1>4 DEF PyInv

\* The application shares an object or uses its Lock.
LEMMA AppKeeps ==
  ASSUME PyInv, NEW t \in Threads, NEW u \in Threads, NEW o \in Objects,
         Share(t, u, o) \/ LockAcquire(t, o) \/ LockRelease(t, o)
  PROVE  PyInv'
<1>1. TypeOK'
  BY SMTT(60) DEF PyInv, TypeOK, Points, frame, libvars, Share, LockAcquire, LockRelease
<1>2. Ownership'
  BY NullAssumption, SMTT(60) DEF PyInv, TypeOK, Ownership, Holding, frame, libvars, MayUse, Share, LockAcquire, LockRelease
<1>3. Discipline'
  BY NullAssumption, GuardedAssumption, SMTT(60)
  DEF PyInv, TypeOK, Ownership, Discipline, Calls, Calling, Holding, MayUse, frame, libvars, Share, LockAcquire, LockRelease
<1>4. Calls'
  BY DEF PyInv, TypeOK, Calls, Calling, frame, libvars, Share, LockAcquire, LockRelease
<1> QED
  BY <1>1, <1>2, <1>3, <1>4 DEF PyInv
\* One step of any thread keeps the invariant.
LEMMA StepKeeps == PyInv /\ [Next]_vars => PyInv'
<1> SUFFICES ASSUME PyInv, [Next]_vars
             PROVE  PyInv'
  OBVIOUS
<1>1. CASE UNCHANGED vars
  BY <1>1, SMTT(60) DEF vars, PyInv, TypeOK, Ownership, Discipline, Calls, Calling, Holding, MayUse
<1>2. ASSUME NEW t \in Threads, OpenStep(t)
      PROVE  PyInv'
  BY <1>2, OpenCallKeeps, OpenOkKeeps, OpenErrorKeeps, OpenReturnKeeps, OpenNoMemoryKeeps DEF OpenStep
<1>3. ASSUME NEW t \in Threads, CallStep(t)
      PROVE  PyInv'
  BY <1>3, CallKeeps, EnterKeeps, LibReturnKeeps, ReturnKeeps DEF CallStep
<1>4. ASSUME NEW t \in Threads, CloseStep(t)
      PROVE  PyInv'
  BY <1>4, CloseDBKeeps, ClosedKeeps, DropRefKeeps DEF CloseStep
<1>5. ASSUME NEW t \in Threads, AppStep(t)
      PROVE  PyInv'
  BY <1>5, AppKeeps DEF AppStep
<1> QED
  BY <1>1, <1>2, <1>3, <1>4, <1>5 DEF Next

\* The invariant holds in every reachable state of the binding.
THEOREM BindingInvariant == Spec => []PyInv
<1>1. Init => PyInv
  BY SMTT(60) DEF Init, PyInv, TypeOK, Points, Ownership, Discipline, Calls, Calling, Holding
<1> QED
  BY <1>1, StepKeeps, PTL DEF Spec

\* qdb_close is never called twice on a handle: Database_close clears the
\* field before it lets other threads run.
THEOREM NoDoubleClose == Spec => []ClosedOnce
<1>1. PyInv => ClosedOnce
  BY DEF PyInv, Ownership, ClosedOnce
<1> QED
  BY <1>1, BindingInvariant, PTL

\* No handle, and so no file lock, is leaked or held twice.
THEOREM OneHolder == Spec => []HeldByOne
<1>1. ASSUME PyInv, NEW h \in Handles, lib[h] = "open"
      PROVE  Cardinality(Holders(h)) = 1
  <2>1. \E x : Holders(h) = {x}
    <3>1. CASE \E o \in Objects : handle[o] = h
      <4>1. PICK o \in Objects : handle[o] = h
        BY <3>1
      <4>2. \A p \in Objects : handle[p] = h => p = o
        BY <1>1, <4>1, NullAssumption, SMTT(30) DEF PyInv, Ownership
      <4>3. \A t \in Threads : ~(Holding(t) /\ using[t] = h)
        BY <1>1, <4>1 DEF PyInv, Ownership
      <4> QED
        BY <4>1, <4>2, <4>3 DEF Holders, Holding
    <3>2. CASE ~\E o \in Objects : handle[o] = h
      <4>1. PICK t \in Threads : Holding(t) /\ using[t] = h
        BY <1>1, <3>2, SMTT(30) DEF PyInv, Ownership
      <4>2. \A u \in Threads : Holding(u) /\ using[u] = h => u = t
        BY <1>1, <4>1 DEF PyInv, Ownership
      <4> QED
        BY <3>2, <4>1, <4>2 DEF Holders, Holding
    <3> QED
      BY <3>1, <3>2
  <2> QED
    BY <2>1, FS_Singleton
<1>2. PyInv => HeldByOne
  BY <1>1 DEF HeldByOne
<1> QED
  BY <1>2, BindingInvariant, PTL

\* The documented locking rule is enough: a thread inside the library through
\* a guarded object uses an open handle, alone.
THEOREM RuleSuffices == Spec => []DisciplinedUse
<1>1. ASSUME PyInv, NEW t \in Threads, at[t] = "inside", self[t] \in Guarded
      PROVE  /\ lib[using[t]] = "open"
             /\ \A u \in Threads \ {t} :
                  /\ at[u] = "inside" => self[u] # self[t]
                  /\ at[u] = "closing" => using[u] # using[t]
  <2>1. /\ MayUse(t, self[t]) /\ handle[self[t]] = using[t]
        /\ using[t] \in Handles /\ self[t] \in Objects
    BY <1>1, SMTT(30) DEF PyInv, Discipline, Calls, Calling
  <2>2. lib[using[t]] = "open"
    BY <1>1, <2>1, NullAssumption, SMTT(30) DEF PyInv, Ownership
  <2>3. ASSUME NEW u \in Threads \ {t}, at[u] = "inside"
        PROVE  self[u] # self[t]
    <3>1. self[u] \in Guarded => MayUse(u, self[u])
      BY <1>1, <2>3, SMTT(30) DEF PyInv, Discipline, Calling
    <3> QED
      BY <1>1, <2>1, <2>3, <3>1 DEF MayUse
  <2>4. ASSUME NEW u \in Threads \ {t}, at[u] = "closing"
        PROVE  using[u] # using[t]
    BY <1>1, <2>1, <2>4 DEF PyInv, Ownership, Holding
  <2> QED
    BY <2>2, <2>3, <2>4, SMTT(30)
<1>2. PyInv => DisciplinedUse
  BY <1>1 DEF DisciplinedUse
<1> QED
  BY <1>2, BindingInvariant, PTL

\* A popped message is only allocated between the return of qdb_pop and that
\* of the method; no step of another thread touches it.
LEMMA MessageStep ==
  ASSUME TypeOK, MessageFreed, [Next]_vars
  PROVE  MessageFreed'
<1>1. CASE UNCHANGED <<at, meth, msg>>
  BY <1>1 DEF MessageFreed
<1>2. ASSUME NEW t \in Threads, at[t] # "back", NEW point \in Points,
             at' = [at EXCEPT ![t] = point], UNCHANGED <<meth, msg>>
      PROVE  MessageFreed'
  BY <1>2, SMTT(30) DEF TypeOK, MessageFreed
<1>3. ASSUME NEW t \in Threads, OpenStep(t)
      PROVE  MessageFreed'
  BY <1>2, <1>3
  DEF OpenStep, OpenCall, OpenOk, OpenError, OpenReturn, OpenNoMemory, Points
<1>4. ASSUME NEW t \in Threads, CallStep(t)
      PROVE  MessageFreed'
  <2>1. ASSUME NEW o \in Objects, NEW m \in {"pop", "other"}, Call(t, o, m)
        PROVE  MessageFreed'
    BY <2>1 DEF Call, TypeOK, MessageFreed
  <2>2. ASSUME NEW h \in Handles \cup {NULL}, Enter(t, h)
        PROVE  MessageFreed'
    BY <1>2, <2>2, Zenon DEF Enter, Points
  <2>3. ASSUME NEW ok \in BOOLEAN, LibReturn(t, ok)
        PROVE  MessageFreed'
    BY <2>3 DEF LibReturn, TypeOK, MessageFreed
  <2>4. ASSUME NEW failed \in BOOLEAN, Return(t, failed)
        PROVE  MessageFreed'
    <3>1. ~msg'[t]
      BY <2>4 DEF Return, message_from_c, TypeOK
    <3>2. \A u \in Threads \ {t} :
            msg'[u] = msg[u] /\ at'[u] = at[u] /\ meth'[u] = meth[u]
      BY <2>4 DEF Return, message_from_c, TypeOK
    <3> QED
      BY <3>1, <3>2 DEF MessageFreed
  <2> QED
    BY <1>4, <2>1, <2>2, <2>3, <2>4, SMTT(30) DEF CallStep
<1>5. ASSUME NEW t \in Threads, CloseStep(t)
      PROVE  MessageFreed'
  BY <1>1, <1>2, <1>5
  DEF CloseStep, Close, Exit, Closed, DropRef, Database_dealloc, Database_exit,
      Database_close, Points
<1>6. ASSUME NEW t \in Threads, AppStep(t)
      PROVE  MessageFreed'
  BY <1>1, <1>6 DEF AppStep, Share, LockAcquire, LockRelease, frame
<1> QED
  BY <1>1, <1>3, <1>4, <1>5, <1>6 DEF Next, vars

\* message_from_c frees the C message on all of its returns, so that no pop()
\* leaves one behind, whichever threads run beside it.
THEOREM PopFreesMessage == Spec => []MessageFreed
<1>1. Init => MessageFreed
  BY DEF Init, MessageFreed
<1>2. PyInv => TypeOK
  BY DEF PyInv
<1> QED
  BY <1>1, <1>2, MessageStep, BindingInvariant, PTL DEF Spec
=============================================================================
