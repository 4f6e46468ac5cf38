----------------------------- MODULE KernelArgs -----------------------------
(***************************************************************************)
(* The argument array of one kernel object: in_clSetKernelArg              *)
(* (src/cl_kernel.c) over kern_set_num_args, kern_set_arg and kern_get_arg *)
(* (drivers/kernel.c).  The array grows to the largest index set so far,   *)
(* by copying into a new block; cl_uint wraps at Width.                    *)
(***************************************************************************)
EXTENDS Naturals

CONSTANTS
  Width,      \* 2^32: cl_uint is a number modulo Width
  Indices,    \* the indices the application uses
  Values,     \* what it may set: [argtype, size, val] of struct kern_arg
  NotUsed,    \* the content of an entry that calloc zeroed (__COMM_ARG_NOTUSED)
  MaxBlock    \* largest number of entries for which calloc succeeds, if it does

ASSUME ArgsAssumption ==
  /\ Width \in Nat \ {0} /\ Indices \subseteq 0 .. Width - 1
  /\ NotUsed \notin Values /\ MaxBlock \in Nat

VARIABLES
  num_args,   \* length of the array
  args,       \* the array, empty if kern->args is NULL
  ret         \* what the last call returned

vars == <<num_args, args, ret>>

Entries(n) == 0 .. n - 1

\* Mutant: the old array is not copied.
Cleared(n) == [j \in Entries(n) |-> NotUsed]

\* The entries of a new array of n: the old ones that fit, zeroes after.
Grown(n) == [j \in Entries(n) |-> IF j < num_args THEN args[j] ELSE NotUsed]

\* kern_get_arg, as enqueue_arg uses it; an index past the array is refused.
ArgAt(i) == IF i < num_args THEN args[i] ELSE NotUsed

\* kern_set_arg on an array a of n entries.
SetArg(n, a, i, v) ==
  /\ num_args' = n
  /\ args' = IF i < n THEN [a EXCEPT ![i] = v] ELSE a
  /\ ret' = IF i < n THEN "CL_SUCCESS" ELSE "CL_INVALID_VALUE"

\* Mutant: the new length is kept though there is no block for it.
GrowLengthFirst(n, i, v) ==
  \/ n # 0 /\ n <= MaxBlock /\ SetArg(n, Grown(n), i, v)
  \/ num_args' = n /\ ret' = "CL_OUT_OF_HOST_MEMORY" /\ UNCHANGED args

\* kern_set_num_args of n, then kern_set_arg.  An array of none needs no block.
Grow(n, i, v) ==
  \/ n <= MaxBlock /\ SetArg(n, Grown(n), i, v)
  \/ n # 0 /\ ret' = "CL_OUT_OF_HOST_MEMORY" /\ UNCHANGED <<num_args, args>>

SetKernelArg(i, v) ==
  \/ num_args <= i /\ Grow((i + 1) % Width, i, v)
  \/ i < num_args /\ SetArg(num_args, args, i, v)

\* No value, or no kernel.
RefuseSet == ret' \in {"CL_INVALID_ARG_VALUE", "CL_INVALID_KERNEL"} /\ UNCHANGED <<num_args, args>>

\* kern_alloc and in_clCreateKernel leave a kernel without arguments.
Init == num_args = 0 /\ args = <<>> /\ ret = "CL_SUCCESS"

Next == RefuseSet \/ \E i \in Indices, v \in Values : SetKernelArg(i, v)

Spec == Init /\ [][Next]_vars

--------------------------------------------------------------------------
(* Properties.                                                             *)

\* The array is as long as num_args says: no call reads or copies past it.
TypeOK ==
  /\ num_args \in Nat /\ args \in [Entries(num_args) -> Values \cup {NotUsed}]
  /\ ret \in {"CL_SUCCESS", "CL_INVALID_VALUE", "CL_OUT_OF_HOST_MEMORY",
              "CL_INVALID_ARG_VALUE", "CL_INVALID_KERNEL"}

\* The index whose array length wraps to 0 is not used.
NoWrap == Width - 1 \notin Indices

Map == INSTANCE ArgMap WITH value <- [i \in Indices |-> ArgAt(i)], ok <- ret = "CL_SUCCESS"

\* The growing array is a map from indices to the values last set: growing
\* and gaps lose and invent nothing, a failed call changes nothing.
ArgsAreMap == Map!ASpec
=============================================================================
