--------------------------- MODULE KernelArgsProofs ---------------------------
(* For every number of arguments and every value: the argument array has the *)
(* length it says, and it implements the map ArgMap as long as no index      *)
(* wraps the length to zero.                                                 *)
EXTENDS KernelArgs, TLAPS

\* A larger array has the old entries and zeroes.
LEMMA GrownKeeps ==
  ASSUME TypeOK, NEW n \in Nat, num_args <= n
  PROVE  /\ Grown(n) \in [Entries(n) -> Values \cup {NotUsed}]
         /\ \A j \in Entries(n) : Grown(n)[j] = ArgAt(j)
BY DEF TypeOK, Grown, Entries, ArgAt

\* The array after kern_set_arg, seen as a map.
LEMMA SetArgSets ==
  ASSUME NEW n \in Nat, NEW a \in [Entries(n) -> Values \cup {NotUsed}],
         NEW i \in Nat, NEW v \in Values, SetArg(n, a, i, v)
  PROVE  /\ TypeOK'
         /\ i < n => /\ ret' = "CL_SUCCESS" /\ ArgAt(i)' = v
                     /\ \A j \in Nat \ {i} : ArgAt(j)' = IF j < n THEN a[j] ELSE NotUsed
<1>1. TypeOK'
  BY DEF SetArg, TypeOK, Entries
<1>2. ASSUME i < n
      PROVE  /\ ret' = "CL_SUCCESS" /\ ArgAt(i)' = v
             /\ \A j \in Nat \ {i} : ArgAt(j)' = IF j < n THEN a[j] ELSE NotUsed
  BY <1>2 DEF SetArg, ArgAt, Entries
<1>3. QED
  BY <1>1, <1>2

\* A call that changes entry i alone, to v, is a step of the map.
LEMMA MapStep ==
  ASSUME NEW i \in Indices, NEW v \in Values, ret' = "CL_SUCCESS", ArgAt(i)' = v,
         \A j \in Nat \ {i} : ArgAt(j)' = ArgAt(j)
  PROVE  Map!ANext
<1> DEFINE value == [j \in Indices |-> ArgAt(j)]
<1>1. \A j \in Indices : ArgAt(j)' = IF j = i THEN v ELSE ArgAt(j)
  BY ArgsAssumption
<1>2. value' = [j \in Indices |-> ArgAt(j)']
  OBVIOUS
<1>3. [value EXCEPT ![i] = v] = [j \in Indices |-> IF j = i THEN v ELSE ArgAt(j)]
  OBVIOUS
<1>4. value' = [value EXCEPT ![i] = v]
  <2> HIDE DEF value
  <2> QED
    BY <1>1, <1>2, <1>3
<1>5. (ret = "CL_SUCCESS")' = TRUE
  OBVIOUS
<1>6. Map!ASet(i, v)
  BY <1>4, <1>5 DEF Map!ASet
<1>7. QED
  BY <1>6 DEF Map!ANext

\* One call of clSetKernelArg keeps the type and is a step of the map.
LEMMA SetKernelArgStep ==
  ASSUME TypeOK, NEW i \in Indices, NEW v \in Values, SetKernelArg(i, v)
  PROVE  TypeOK' /\ (NoWrap => Map!ANext)
<1>1. i \in Nat /\ i < Width /\ Width \in Nat \ {0} /\ num_args \in Nat
  BY ArgsAssumption DEF TypeOK
<1>2. CASE i < num_args /\ SetArg(num_args, args, i, v)
  <2>1. args \in [Entries(num_args) -> Values \cup {NotUsed}]
    BY DEF TypeOK
  <2>2. /\ TypeOK' /\ ret' = "CL_SUCCESS" /\ ArgAt(i)' = v
        /\ \A j \in Nat \ {i} : ArgAt(j)' = ArgAt(j)
    BY <1>1, <1>2, <2>1, SetArgSets DEF ArgAt
  <2>3. QED
    BY <2>2, MapStep
<1>3. CASE num_args <= i /\ Grow((i + 1) % Width, i, v)
  <2> DEFINE n == (i + 1) % Width
  <2>1. n \in Nat
    BY <1>1
  <2>2. CASE n # 0 /\ ret' = "CL_OUT_OF_HOST_MEMORY" /\ UNCHANGED <<num_args, args>>
    <3>1. TypeOK'
      BY <2>2 DEF TypeOK
    <3>2. Map!AFail
      BY <2>2 DEF Map!AFail, ArgAt
    <3>3. QED
      BY <3>1, <3>2 DEF Map!ANext
  <2>3. CASE SetArg(n, Grown(n), i, v)
    <3>1. Grown(n) \in [Entries(n) -> Values \cup {NotUsed}]
      BY <2>1 DEF TypeOK, Grown, Entries
    <3>2. TypeOK'
      BY <1>1, <2>1, <2>3, <3>1, SetArgSets
    <3>3. ASSUME NoWrap PROVE Map!ANext
      <4>1. n = i + 1
        BY <1>1, <3>3 DEF NoWrap
      <4>2. \A j \in Entries(n) : Grown(n)[j] = ArgAt(j)
        BY <1>1, <1>3, <2>1, <4>1, GrownKeeps
      <4>3. /\ ret' = "CL_SUCCESS" /\ ArgAt(i)' = v
            /\ \A j \in Nat \ {i} : ArgAt(j)' = IF j < n THEN Grown(n)[j] ELSE NotUsed
        BY <1>1, <2>1, <2>3, <3>1, <4>1, SetArgSets
      <4>4. \A j \in Nat \ {i} : ArgAt(j)' = ArgAt(j)
        BY <1>1, <1>3, <4>1, <4>2, <4>3 DEF ArgAt, Entries
      <4>5. QED
        BY <4>3, <4>4, MapStep
    <3>4. QED
      BY <3>2, <3>3
  <2>4. QED
    BY <1>3, <2>2, <2>3 DEF Grow
<1>4. QED
  BY <1>2, <1>3 DEF SetKernelArg

\* A step of the kernel object keeps the type and implements the map.
LEMMA NextStep ==
  ASSUME TypeOK, [Next]_vars
  PROVE  TypeOK' /\ (NoWrap => [Map!ANext]_<<[i \in Indices |-> ArgAt(i)], ret = "CL_SUCCESS">>)
<1>1. CASE UNCHANGED vars
  BY <1>1 DEF vars, TypeOK, ArgAt
<1>2. CASE RefuseSet
  <2>1. TypeOK'
    BY <1>2 DEF RefuseSet, TypeOK
  <2>2. Map!AFail
    BY <1>2 DEF RefuseSet, Map!AFail, ArgAt
  <2>3. QED
    BY <2>1, <2>2 DEF Map!ANext
<1>3. ASSUME NEW i \in Indices, NEW v \in Values, SetKernelArg(i, v)
      PROVE  TypeOK' /\ (NoWrap => Map!ANext)
  BY <1>3, SetKernelArgStep
<1>4. QED
  BY <1>1, <1>2, <1>3 DEF Next

\* The argument array always has the length that num_args says, also where
\* the length wraps and where there is no memory for a larger one.
THEOREM ArrayHasItsLength == Spec => []TypeOK
<1>1. Init => TypeOK
  BY DEF Init, TypeOK, Entries
<1>2. TypeOK /\ [Next]_vars => TypeOK'
  BY NextStep
<1>3. QED
  BY <1>1, <1>2, PTL DEF Spec

\* Calls of clSetKernelArg set one value per index and keep the others, and
\* failed calls keep all, for indices that do not wrap the length.
THEOREM ArgsImplementMap == NoWrap => (Spec => ArgsAreMap)
<1> SUFFICES ASSUME NoWrap PROVE Spec => ArgsAreMap
  OBVIOUS
<1>1. Init => Map!AInit
  BY ArgsAssumption DEF Init, Map!AInit, ArgAt
<1>2. TypeOK /\ [Next]_vars
        => [Map!ANext]_<<[i \in Indices |-> ArgAt(i)], ret = "CL_SUCCESS">>
  <2> SUFFICES ASSUME TypeOK, [Next]_vars
               PROVE  [Map!ANext]_<<[i \in Indices |-> ArgAt(i)], ret = "CL_SUCCESS">>
    OBVIOUS
  <2> QED
    BY NextStep
<1>3. QED
  BY <1>1, <1>2, ArrayHasItsLength, PTL DEF Spec, ArgsAreMap, Map!ASpec
=============================================================================
