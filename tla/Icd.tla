-------------------------------- MODULE Icd --------------------------------
(***************************************************************************)
(* An application that calls OpenCL through an ICD loader.  The loader     *)
(* finds the platform; every later call goes to the slot of the dispatch   *)
(* table that the handle points to, and a handle gets its pointer from the *)
(* handle it is made from (drivers/*.c).                                   *)
(***************************************************************************)
EXTENDS FiniteSets, IcdTable

VARIABLES
  held,     \* the kinds of handles the application has, one of each
  disp,     \* disp[k]: where the dispatch of the handle of kind k leads, "table" or ""
  called,   \* the last function called
  ran       \* the function that ran: "" is a jump to NULL, where all ends

vars == <<held, disp, called, ran>>

Kinds == {"platform", "device", "context", "queue", "mem", "program", "kernel"}

\* The handles that functions give, and take.
Makes == [clGetDeviceIDs |-> "device", clCreateContext |-> "context",
          clCreateCommandQueueWithProperties |-> "queue", clCreateBuffer |-> "mem",
          clCreateProgramWithBinary |-> "program", clCreateKernel |-> "kernel"]
Takes == [clReleaseContext |-> "context", clReleaseCommandQueue |-> "queue",
          clReleaseMemObject |-> "mem", clReleaseProgram |-> "program",
          clReleaseKernel |-> "kernel"]

\* What the applications under test/ call.
SampleCalls ==
  {"clGetDeviceIDs", "clCreateContext", "clCreateCommandQueueWithProperties", "clCreateBuffer",
   "clCreateProgramWithSource", "clCreateProgramWithBinary", "clBuildProgram", "clCreateKernel",
   "clSetKernelArg", "clEnqueueWriteBuffer", "clEnqueueNDRangeKernel", "clEnqueueReadBuffer",
   "clFinish", "clReleaseKernel", "clReleaseProgram", "clReleaseMemObject",
   "clReleaseCommandQueue", "clReleaseContext"}

\* The exported functions by name.
GetExtensionFunctionAddress(name) ==
  IF name = "clIcdGetPlatformIDsKHR" THEN "clGetPlatformIDs" ELSE ""

--------------------------------------------------------------------------

\* The loader asks the library for clIcdGetPlatformIDsKHR and calls it: plat[0]
\* is the one platform.
Discover ==
  /\ held = {} /\ ran = "none"
  /\ called' = "clGetPlatformIDs" /\ ran' = GetExtensionFunctionAddress("clIcdGetPlatformIDsKHR")
  /\ held' = {"platform"} /\ disp' = [disp EXCEPT !["platform"] = "table"]

\* Mutant: kern_alloc does not set the dispatch.
DispatchedUnlessKernel(k, from) == IF k = "kernel" THEN "" ELSE disp[from]

\* dev_alloc, ctx_alloc, cmdq_alloc, mem_alloc, prg_alloc and kern_alloc take
\* the dispatch of the parent.
DispatchOf(k, from) == disp[from]

\* What the function does to the handles, or nothing if it fails.
Effect(f, from) ==
  \/ UNCHANGED <<held, disp>>
  \/ /\ f \in DOMAIN Makes /\ held' = held \cup {Makes[f]}
     /\ disp' = [disp EXCEPT ![Makes[f]] = DispatchOf(Makes[f], from)]
  \/ f \in DOMAIN Takes /\ held' = held \ {Takes[f]} /\ UNCHANGED disp

Call(f) ==
  /\ ran # "" /\ called' = f
  /\ \E k \in held :
       /\ CalledOn(f, k)
       /\ ran' = IF disp[k] = "table" THEN Entry(f) ELSE ""
       /\ Effect(ran', k)

Init == held = {} /\ disp = [k \in Kinds |-> ""] /\ called = "none" /\ ran = "none"

Next == Discover \/ \E n \in DOMAIN Slots : Call(Slots[n])

Spec == Init /\ [][Next]_vars

--------------------------------------------------------------------------
(* Properties.                                                             *)

\* A call runs the function the application named or none: the 148 positions
\* of the initialiser are those of the struct.
RunsWhatWasCalled == ran \in {called, ""}

\* None of the calls the sample applications make jumps to NULL, the releases
\* too, on whichever handle they make it: every handle leads to the table,
\* however long the chain of handles it was made from and whichever of those
\* were released.
SampleCallsRun == called \in SampleCalls => ran = called
=============================================================================
