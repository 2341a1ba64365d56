---------------------------- MODULE LightsProofs ----------------------------
(***************************************************************************)
(* For any number of threads, devices and lights: the vendor's module has  *)
(* open what has been handed out, and a backlight request that succeeds    *)
(* leaves its own brightness in both files.                                *)
(***************************************************************************)
EXTENDS Lights, FiniteSetTheorems, TLAPS

USE NameAssumption, SizeAssumption, NobodyAssumption

\* The threads in open_lights() or lights_device_close().
Opening == {"vendor", "alloc", "name", "close"}

handed(n) == {d \in Device : lights[d] = n}

\* A device the vendor has opened and that is not handed out yet.
pending(n) == IF \E t \in Thread : pc[t] = "name" /\ name[t] = n THEN 1 ELSE 0

Holders ==
  \A t \in Thread : /\ pc[t] \in Opening <=> gLightWrapperLock = t
                    /\ pc[t] \in Inside <=> g_lock = t

Chosen ==
  \A t \in Thread :
    /\ pc[t] = "name" => dev[t] \in Device /\ lights[dev[t]] = Nobody
    /\ pc[t] = "close" => dev[t] \in Device /\ lights[dev[t]] # Nobody

Balanced == \A n \in Known : vendor[n] = Cardinality(handed(n)) + pending(n)

OpenInv == TypeOK /\ Holders /\ Chosen /\ Balanced

\* What a request that has not failed so far has written.
WriteInv ==
  \A t \in Thread : ~err[t] =>
    /\ pc[t] \in {"second", "unlock"} => file[1] = brightness[t]
    /\ pc[t] = "unlock" => file[2] = brightness[t]

-----------------------------------------------------------------------------
\* What a request shows is 0 or no darker than the minimum.
LEMMA ShownRange ==
  ASSUME NEW c \in Color
  PROVE  shown(c) \in {0} \cup Min .. 255
<1>1. rgb_to_brightness(c) = 0 \/ rgb_to_brightness(c) \in DOMAIN gamma
  BY GammaAssumption
<1> QED
  BY <1>1, ColorAssumption DEF shown

\* What is handed out is finite, and counts what it has.
LEMMA HandedCount ==
  ASSUME NEW n
  PROVE  /\ IsFiniteSet(handed(n)) /\ Cardinality(handed(n)) \in Nat
         /\ Cardinality(handed(n)) = 0 <=> handed(n) = {}
<1>1. handed(n) \in SUBSET Device
  BY DEF handed
<1>2. IsFiniteSet(handed(n))
  BY <1>1, DeviceAssumption, FS_Subset
<1> QED
  BY <1>2, FS_CardinalityType, FS_EmptySet

\* A write keeps the types of the files and of the threads' errors.
LEMMA WrittenTypes ==
  ASSUME TypeOK, NEW t \in Thread, NEW f \in {1, 2}, written(t, f)
  PROVE  err' \in [Thread -> BOOLEAN] /\ file' \in [{1, 2} -> {0} \cup Min .. 255]
<1>1. CASE file' = [file EXCEPT ![f] = brightness[t]] /\ err' = err
  <2>1. brightness[t] \in {0} \cup Min .. 255
    BY DEF TypeOK
  <2>2. file \in [{1, 2} -> {0} \cup Min .. 255] /\ err \in [Thread -> BOOLEAN]
    BY DEF TypeOK
  <2> QED
    BY <1>1, <2>1, <2>2
<1>2. CASE err' = [err EXCEPT ![t] = TRUE] /\ file' = file
  <2>1. file \in [{1, 2} -> {0} \cup Min .. 255] /\ err \in [Thread -> BOOLEAN]
    BY DEF TypeOK
  <2> QED
    BY <1>2, <2>1
<1> QED
  BY <1>1, <1>2 DEF written

\* The types hold at first, and so does everything else.
LEMMA InitOpenInv == Init => OpenInv /\ WriteInv
<1> SUFFICES ASSUME Init PROVE OpenInv /\ WriteInv
  OBVIOUS
<1>1. TypeOK
  BY ColorAssumption DEF Init, TypeOK
<1>2. Holders /\ Chosen /\ WriteInv
  BY DEF Init, Holders, Chosen, WriteInv, Opening, Inside
<1>3. ASSUME NEW n \in Known PROVE vendor[n] = Cardinality(handed(n)) + pending(n)
  <2>1. handed(n) = {} /\ pending(n) = 0 /\ vendor[n] = 0
    BY DEF Init, handed, pending
  <2> QED
    BY <2>1, FS_EmptySet
<1> QED
  BY <1>1, <1>2, <1>3 DEF OpenInv, Balanced

-----------------------------------------------------------------------------
\* A step keeps the types.
LEMMA TypeStep ==
  ASSUME OpenInv, NEW t \in Thread, Step(t)
  PROVE  TypeOK'
<1> USE DEF OpenInv, Inside
<1>1. ASSUME NEW n \in Name, Open(t, n) PROVE TypeOK'
  BY <1>1 DEF Open, TypeOK, goto
<1>2. CASE CheckVendor(t)
  <2>1. gVendorModule' \in BOOLEAN
    BY <1>2, Zenon DEF CheckVendor, TypeOK
  <2> QED
    BY <1>2, <2>1 DEF CheckVendor, TypeOK, goto, local
<1>3. CASE OpenVendor(t)
  BY <1>3 DEF OpenVendor, TypeOK, goto, locks, free, vendorCanOpen
<1>4. CASE OpenFails(t)
  BY <1>4 DEF OpenFails, TypeOK, goto, local
<1>5. CASE OpenReturn(t)
  <2>1. lights' \in [Device -> Known \cup {Nobody}]
    BY <1>5 DEF OpenReturn, TypeOK
  <2> QED
    BY <1>5, <2>1 DEF OpenReturn, TypeOK, goto
<1>6. ASSUME NEW d \in Device, Close(t, d) PROVE TypeOK'
  BY <1>6 DEF Close, TypeOK, goto
<1>7. CASE CloseVendor(t)
  <2> DEFINE n == lights[dev[t]]
  <2>1. dev[t] \in Device /\ n \in Known
    BY <1>7 DEF CloseVendor, Chosen, TypeOK
  <2>2. Cardinality(handed(n)) \in Nat \ {0}
    BY <2>1, HandedCount DEF handed
  <2>3. pending(n) \in Nat
    BY DEF pending
  <2>4. vendor[n] \in Nat \ {0}
    BY <2>1, <2>2, <2>3 DEF Balanced
  <2>5. vendor' \in [Name -> Nat]
    BY <1>7, <2>1, <2>4 DEF CloseVendor, TypeOK
  <2> QED
    BY <1>7, <2>5 DEF CloseVendor, TypeOK, goto
<1>8. ASSUME NEW c \in Color, SetBacklight(t, c) PROVE TypeOK'
  BY <1>8, ShownRange DEF SetBacklight, TypeOK, goto, locks
<1>9. CASE Lock(t)
  BY <1>9 DEF Lock, TypeOK, goto, local
<1>10. CASE WriteFirst(t)
  <2>1. err' \in [Thread -> BOOLEAN] /\ file' \in [{1, 2} -> {0} \cup Min .. 255]
    <3>1. written(t, 1)
      BY <1>10 DEF WriteFirst
    <3> QED
      BY <3>1, WrittenTypes
  <2>2. pc' \in [Thread -> {"idle", "vendor", "alloc", "name", "close", "lock"} \cup Inside]
    BY <1>10 DEF WriteFirst, TypeOK, goto, Inside
  <2> QED
    BY <1>10, <2>1, <2>2 DEF WriteFirst, TypeOK, locks
<1>11. CASE WriteSecond(t)
  <2>1. err' \in [Thread -> BOOLEAN] /\ file' \in [{1, 2} -> {0} \cup Min .. 255]
    <3>1. written(t, 2)
      BY <1>11 DEF WriteSecond
    <3> QED
      BY <3>1, WrittenTypes
  <2>2. pc' \in [Thread -> {"idle", "vendor", "alloc", "name", "close", "lock"} \cup Inside]
    BY <1>11 DEF WriteSecond, TypeOK, goto, Inside
  <2> QED
    BY <1>11, <2>1, <2>2 DEF WriteSecond, TypeOK, locks
<1>12. CASE Unlock(t)
  BY <1>12 DEF Unlock, TypeOK, goto, local
<1> QED
  BY <1>1, <1>2, <1>3, <1>4, <1>5, <1>6, <1>7, <1>8, <1>9, <1>10, <1>11, <1>12 DEF Step

\* The locks are held by who is behind them, and a device that is being
\* opened or closed is nobody else's.
LEMMA HolderStep ==
  ASSUME OpenInv, NEW t \in Thread, Step(t)
  PROVE  Holders' /\ Chosen'
<1> USE DEF OpenInv, TypeOK, Holders, Chosen, Inside, Opening
<1>1. ASSUME NEW n \in Name, Open(t, n) PROVE Holders' /\ Chosen'
  BY <1>1 DEF Open, goto
<1>2. CASE CheckVendor(t)
  BY <1>2 DEF CheckVendor, goto, local
<1>3. CASE OpenVendor(t)
  BY <1>3 DEF OpenVendor, goto, locks, free
<1>4. CASE OpenFails(t)
  BY <1>4 DEF OpenFails, goto, local
<1>5. CASE OpenReturn(t)
  BY <1>5 DEF OpenReturn, goto
<1>6. ASSUME NEW d \in Device, Close(t, d) PROVE Holders' /\ Chosen'
  BY <1>6 DEF Close, goto
<1>7. CASE CloseVendor(t)
  BY <1>7 DEF CloseVendor, goto
<1>8. ASSUME NEW c \in Color, SetBacklight(t, c) PROVE Holders' /\ Chosen'
  BY <1>8 DEF SetBacklight, goto, locks
<1>9. CASE Lock(t)
  BY <1>9 DEF Lock, goto, local
<1>10. CASE WriteFirst(t)
  BY <1>10 DEF WriteFirst, goto, locks
<1>11. CASE WriteSecond(t)
  BY <1>11 DEF WriteSecond, goto, locks
<1>12. CASE Unlock(t)
  BY <1>12 DEF Unlock, goto, local
<1> QED
  BY <1>1, <1>2, <1>3, <1>4, <1>5, <1>6, <1>7, <1>8, <1>9, <1>10, <1>11, <1>12 DEF Step

\* A step that opens, hands out and closes nothing keeps the balance.
LEMMA BalanceKept ==
  ASSUME OpenInv, NEW t \in Thread, UNCHANGED <<lights, vendor>>,
         \A u \in Thread : pc'[u] = "name" <=> pc[u] = "name",
         \A u \in Thread : pc[u] = "name" => name'[u] = name[u]
  PROVE  Balanced'
<1>1. \A n \in Known : handed(n)' = handed(n) /\ pending(n)' = pending(n)
  BY DEF handed, pending
<1> QED
  BY <1>1 DEF OpenInv, Balanced

\* A step keeps the balance of what is open and what is handed out.
LEMMA BalanceStep ==
  ASSUME OpenInv, NEW t \in Thread, Step(t)
  PROVE  Balanced'
<1> USE DEF OpenInv, TypeOK
<1>1. ASSUME NEW n \in Name, Open(t, n) PROVE Balanced'
  BY <1>1, BalanceKept DEF Open, goto
<1>2. CASE CheckVendor(t)
  BY <1>2, BalanceKept DEF CheckVendor, goto, local
<1>3. CASE OpenVendor(t)
  <2> SUFFICES ASSUME NEW n \in Known
               PROVE  vendor'[n] = Cardinality(handed(n)') + pending(n)'
    BY DEF Balanced
  <2>1. handed(n)' = handed(n)
    BY <1>3 DEF OpenVendor, handed
  <2>2. \A u \in Thread : pc[u] # "name"
    BY <1>3 DEF OpenVendor, Holders, Opening
  <2>3. pending(n) = 0 /\ pending(n)' = IF name[t] = n THEN 1 ELSE 0
    BY <1>3, <2>2 DEF OpenVendor, pending, goto
  <2>4. vendor'[n] = vendor[n] + IF name[t] = n THEN 1 ELSE 0
    BY <1>3 DEF OpenVendor
  <2> QED
    BY <2>1, <2>3, <2>4, HandedCount DEF Balanced
<1>4. CASE OpenFails(t)
  BY <1>4, BalanceKept DEF OpenFails, goto, local
<1>5. CASE OpenReturn(t)
  <2> SUFFICES ASSUME NEW n \in Known
               PROVE  vendor'[n] = Cardinality(handed(n)') + pending(n)'
    BY DEF Balanced
  <2>1. \A u \in Thread \ {t} : pc[u] # "name"
    BY <1>5 DEF OpenReturn, Holders, Opening
  <2>2. pending(n)' = 0 /\ pending(n) = IF name[t] = n THEN 1 ELSE 0
    BY <1>5, <2>1 DEF OpenReturn, pending, goto
  <2>3. dev[t] \in Device /\ lights[dev[t]] = Nobody /\ dev[t] \notin handed(n)
    BY <1>5 DEF OpenReturn, Chosen, handed
  <2>4. CASE name[t] = n
    <3>1. handed(n)' = handed(n) \cup {dev[t]}
      BY <1>5, <2>3, <2>4 DEF OpenReturn, handed
    <3>2. Cardinality(handed(n)') = Cardinality(handed(n)) + 1
      <4>1. IsFiniteSet(handed(n))
        BY HandedCount
      <4>2. Cardinality(handed(n) \cup {dev[t]}) = Cardinality(handed(n)) + 1
        BY <2>3, <4>1, FS_AddElement
      <4> QED
        BY <3>1, <4>2
    <3> QED
      BY <1>5, <2>2, <2>4, <3>2, HandedCount DEF OpenReturn, Balanced
  <2>5. CASE name[t] # n
    <3>1. handed(n)' = handed(n)
      BY <1>5, <2>3, <2>5 DEF OpenReturn, handed
    <3> QED
      BY <1>5, <2>2, <2>5, <3>1 DEF OpenReturn, Balanced
  <2> QED
    BY <2>4, <2>5
<1>6. ASSUME NEW d \in Device, Close(t, d) PROVE Balanced'
  BY <1>6, BalanceKept DEF Close, goto
<1>7. CASE CloseVendor(t)
  <2> SUFFICES ASSUME NEW n \in Known
               PROVE  vendor'[n] = Cardinality(handed(n)') + pending(n)'
    BY DEF Balanced
  <2>1. pending(n)' = pending(n)
    BY <1>7 DEF CloseVendor, pending, goto
  <2>2. dev[t] \in Device /\ lights[dev[t]] \in Known
    BY <1>7 DEF CloseVendor, Chosen
  <2>3. CASE lights[dev[t]] = n
    <3>1. handed(n)' = handed(n) \ {dev[t]} /\ dev[t] \in handed(n)
      BY <1>7, <2>2, <2>3 DEF CloseVendor, handed
    <3>2. Cardinality(handed(n)') = Cardinality(handed(n)) - 1
      <4>1. IsFiniteSet(handed(n))
        BY HandedCount
      <4>2. Cardinality(handed(n) \ {dev[t]}) = Cardinality(handed(n)) - 1
        BY <3>1, <4>1, FS_RemoveElement
      <4> QED
        BY <3>1, <4>2
    <3>3. vendor'[n] = vendor[n] - 1
      BY <1>7, <2>3 DEF CloseVendor
    <3>4. pending(n) \in Nat
      BY DEF pending
    <3> QED
      BY <2>1, <3>2, <3>3, <3>4, HandedCount DEF Balanced
  <2>4. CASE lights[dev[t]] # n
    <3>1. handed(n)' = handed(n)
      BY <1>7, <2>2, <2>4 DEF CloseVendor, handed
    <3>2. vendor'[n] = vendor[n]
      BY <1>7, <2>4 DEF CloseVendor
    <3> QED
      BY <2>1, <3>1, <3>2 DEF Balanced
  <2> QED
    BY <2>3, <2>4
<1>8. ASSUME NEW c \in Color, SetBacklight(t, c) PROVE Balanced'
  BY <1>8, BalanceKept DEF SetBacklight, goto
<1>9. CASE Lock(t)
  BY <1>9, BalanceKept DEF Lock, goto, local
<1>10. CASE WriteFirst(t)
  BY <1>10, BalanceKept DEF WriteFirst, goto
<1>11. CASE WriteSecond(t)
  BY <1>11, BalanceKept DEF WriteSecond, goto
<1>12. CASE Unlock(t)
  BY <1>12, BalanceKept DEF Unlock, goto, local
<1> QED
  BY <1>1, <1>2, <1>3, <1>4, <1>5, <1>6, <1>7, <1>8, <1>9, <1>10, <1>11, <1>12 DEF Step

\* Under g_lock the files are one thread's.
LEMMA WriteStep ==
  ASSUME OpenInv, WriteInv, NEW t \in Thread, Step(t)
  PROVE  WriteInv'
<1> USE DEF OpenInv, TypeOK, Holders, Inside, WriteInv
<1>1. ASSUME NEW n \in Name, Open(t, n) PROVE WriteInv'
  BY <1>1 DEF Open, goto
<1>2. CASE CheckVendor(t)
  BY <1>2 DEF CheckVendor, goto, local
<1>3. CASE OpenVendor(t)
  BY <1>3 DEF OpenVendor, goto
<1>4. CASE OpenFails(t)
  BY <1>4 DEF OpenFails, goto, local
<1>5. CASE OpenReturn(t)
  BY <1>5 DEF OpenReturn, goto
<1>6. ASSUME NEW d \in Device, Close(t, d) PROVE WriteInv'
  BY <1>6 DEF Close, goto
<1>7. CASE CloseVendor(t)
  BY <1>7 DEF CloseVendor, goto
<1>8. ASSUME NEW c \in Color, SetBacklight(t, c) PROVE WriteInv'
  BY <1>8 DEF SetBacklight, goto
<1>9. CASE Lock(t)
  BY <1>9 DEF Lock, goto, local
<1>10. CASE WriteFirst(t)
  BY <1>10 DEF WriteFirst, written, goto
<1>11. CASE WriteSecond(t)
  BY <1>11 DEF WriteSecond, written, goto
<1>12. CASE Unlock(t)
  BY <1>12 DEF Unlock, goto, local
<1> QED
  BY <1>1, <1>2, <1>3, <1>4, <1>5, <1>6, <1>7, <1>8, <1>9, <1>10, <1>11, <1>12 DEF Step

-----------------------------------------------------------------------------
\* Both invariants hold throughout.
LEMMA Invariance == Spec => [](OpenInv /\ WriteInv)
<1>1. OpenInv /\ WriteInv /\ [Next]_vars => (OpenInv /\ WriteInv)'
  <2>1. OpenInv /\ WriteInv /\ UNCHANGED vars => (OpenInv /\ WriteInv)'
    BY DEF vars, locks, local, OpenInv, WriteInv, TypeOK, Holders, Chosen, Balanced,
           handed, pending
  <2>2. OpenInv /\ WriteInv /\ Next => (OpenInv /\ WriteInv)'
    <3> SUFFICES ASSUME OpenInv, WriteInv, NEW t \in Thread, Step(t)
                 PROVE  (OpenInv /\ WriteInv)'
      BY DEF Next
    <3>1. TypeOK'
      BY TypeStep
    <3>2. Holders' /\ Chosen'
      BY HolderStep
    <3>3. Balanced'
      BY BalanceStep
    <3>4. WriteInv'
      BY WriteStep
    <3> QED
      BY <3>1, <3>2, <3>3, <3>4 DEF OpenInv
  <2> QED
    BY <2>1, <2>2
<1> QED
  BY <1>1, InitOpenInv, PTL DEF Spec

\* Type correctness: brightnesses are 0 or at least the minimum, and the
\* vendor's count never goes below zero (lights.cpp:107-128, 178-231).
THEOREM TypeCorrect == Spec => []TypeOK
BY Invariance, PTL DEF OpenInv

\* Of each light the wrapper knows, the vendor has open what was handed out
\* and not closed, whatever failed on the way (lights.cpp:245-310).  It does
\* not say so of a name the wrapper refuses, whose device leaks (line 289).
THEOREM NothingLeftOpen == Spec => []NoneLeftOpen
<1>1. OpenInv => NoneLeftOpen
  <2> SUFFICES ASSUME OpenInv, gLightWrapperLock = Nobody, NEW n \in Known
               PROVE  vendor[n] = Cardinality({d \in Device : lights[d] = n})
    BY DEF NoneLeftOpen
  <2>1. pending(n) = 0
    BY DEF OpenInv, Holders, Opening, pending
  <2>2. vendor[n] = Cardinality(handed(n))
    BY <2>1, HandedCount DEF OpenInv, Balanced
  <2> QED
    BY <2>2 DEF handed
<1> QED
  BY <1>1, Invariance, PTL

\* A request that returns 0 has its own brightness in both files
\* (lights.cpp:233-243).
THEOREM SuccessIsShown == Spec => ShownOnSuccess
<1>1. OpenInv /\ WriteInv /\ [Next]_vars =>
        [\A t \in Thread :
           (pc[t] = "unlock" /\ pc'[t] = "idle" /\ ~err[t])
             => file[1] = brightness[t] /\ file[2] = brightness[t]]_vars
  BY DEF WriteInv
<1> QED
  BY <1>1, Invariance, PTL DEF Spec, ShownOnSuccess
=============================================================================
