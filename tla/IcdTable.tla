------------------------------ MODULE IcdTable -----------------------------
(***************************************************************************)
(* The dispatch table: the slots of struct _cl_icd_dispatch, what the      *)
(* initialiser of src/cl_platform.c puts into them position by position,   *)
(* and the functions include/in_cl.h declares, each under the kind of      *)
(* handle in which an ICD loader finds the table to call it from.          *)
(***************************************************************************)
EXTENDS Sequences

\* The slots in the order of the struct: OpenCL 1.0 and D3D10 sharing.
SlotsTo10 == <<
    "clGetPlatformIDs", "clGetPlatformInfo", "clGetDeviceIDs", "clGetDeviceInfo",
    "clCreateContext", "clCreateContextFromType", "clRetainContext", "clReleaseContext",
    "clGetContextInfo", "clCreateCommandQueue", "clRetainCommandQueue",
    "clReleaseCommandQueue", "clGetCommandQueueInfo", "clSetCommandQueueProperty",
    "clCreateBuffer", "clCreateImage2D", "clCreateImage3D", "clRetainMemObject",
    "clReleaseMemObject", "clGetSupportedImageFormats", "clGetMemObjectInfo",
    "clGetImageInfo", "clCreateSampler", "clRetainSampler", "clReleaseSampler",
    "clGetSamplerInfo", "clCreateProgramWithSource", "clCreateProgramWithBinary",
    "clRetainProgram", "clReleaseProgram", "clBuildProgram", "clUnloadCompiler",
    "clGetProgramInfo", "clGetProgramBuildInfo", "clCreateKernel",
    "clCreateKernelsInProgram", "clRetainKernel", "clReleaseKernel", "clSetKernelArg",
    "clGetKernelInfo", "clGetKernelWorkGroupInfo", "clWaitForEvents", "clGetEventInfo",
    "clRetainEvent", "clReleaseEvent", "clGetEventProfilingInfo", "clFlush", "clFinish",
    "clEnqueueReadBuffer", "clEnqueueWriteBuffer", "clEnqueueCopyBuffer",
    "clEnqueueReadImage", "clEnqueueWriteImage", "clEnqueueCopyImage",
    "clEnqueueCopyImageToBuffer", "clEnqueueCopyBufferToImage", "clEnqueueMapBuffer",
    "clEnqueueMapImage", "clEnqueueUnmapMemObject", "clEnqueueNDRangeKernel",
    "clEnqueueTask", "clEnqueueNativeKernel", "clEnqueueMarker", "clEnqueueWaitForEvents",
    "clEnqueueBarrier", "clGetExtensionFunctionAddress", "clCreateFromGLBuffer",
    "clCreateFromGLTexture2D", "clCreateFromGLTexture3D", "clCreateFromGLRenderbuffer",
    "clGetGLObjectInfo", "clGetGLTextureInfo", "clEnqueueAcquireGLObjects",
    "clEnqueueReleaseGLObjects", "clGetGLContextInfoKHR", "clGetDeviceIDsFromD3D10KHR",
    "clCreateFromD3D10BufferKHR", "clCreateFromD3D10Texture2DKHR",
    "clCreateFromD3D10Texture3DKHR", "clEnqueueAcquireD3D10ObjectsKHR",
    "clEnqueueReleaseD3D10ObjectsKHR">>

\* OpenCL 1.1 to 1.2, device fission and GL events.
SlotsTo12 == <<
    "clSetEventCallback", "clCreateSubBuffer", "clSetMemObjectDestructorCallback",
    "clCreateUserEvent", "clSetUserEventStatus", "clEnqueueReadBufferRect",
    "clEnqueueWriteBufferRect", "clEnqueueCopyBufferRect", "clCreateSubDevicesEXT",
    "clRetainDeviceEXT", "clReleaseDeviceEXT", "clCreateEventFromGLsyncKHR",
    "clCreateSubDevices", "clRetainDevice", "clReleaseDevice", "clCreateImage",
    "clCreateProgramWithBuiltInKernels", "clCompileProgram", "clLinkProgram",
    "clUnloadPlatformCompiler", "clGetKernelArgInfo", "clEnqueueFillBuffer",
    "clEnqueueFillImage", "clEnqueueMigrateMemObjects", "clEnqueueMarkerWithWaitList",
    "clEnqueueBarrierWithWaitList", "clGetExtensionFunctionAddressForPlatform",
    "clCreateFromGLTexture">>

\* The other sharing extensions, OpenCL 2.0 to 3.0.
SlotsTo30 == <<
    "clGetDeviceIDsFromD3D11KHR", "clCreateFromD3D11BufferKHR",
    "clCreateFromD3D11Texture2DKHR", "clCreateFromD3D11Texture3DKHR",
    "clCreateFromDX9MediaSurfaceKHR", "clEnqueueAcquireD3D11ObjectsKHR",
    "clEnqueueReleaseD3D11ObjectsKHR", "clGetDeviceIDsFromDX9MediaAdapterKHR",
    "clEnqueueAcquireDX9MediaSurfacesKHR", "clEnqueueReleaseDX9MediaSurfacesKHR",
    "clCreateFromEGLImageKHR", "clEnqueueAcquireEGLObjectsKHR",
    "clEnqueueReleaseEGLObjectsKHR", "clCreateEventFromEGLSyncKHR",
    "clCreateCommandQueueWithProperties", "clCreatePipe", "clGetPipeInfo", "clSVMAlloc",
    "clSVMFree", "clEnqueueSVMFree", "clEnqueueSVMMemcpy", "clEnqueueSVMMemFill",
    "clEnqueueSVMMap", "clEnqueueSVMUnmap", "clCreateSamplerWithProperties",
    "clSetKernelArgSVMPointer", "clSetKernelExecInfo", "clGetKernelSubGroupInfoKHR",
    "clCloneKernel", "clCreateProgramWithIL", "clEnqueueSVMMigrateMem",
    "clGetDeviceAndHostTimer", "clGetHostTimer", "clGetKernelSubGroupInfo",
    "clSetDefaultDeviceCommandQueue", "clSetProgramReleaseCallback",
    "clSetProgramSpecializationConstant", "clCreateBufferWithProperties",
    "clCreateImageWithProperties">>

Slots == SlotsTo10 \o SlotsTo12 \o SlotsTo30

\* The initialiser, "" for NULL.
TableTo10 == <<
    "clGetPlatformIDs", "clGetPlatformInfo", "clGetDeviceIDs", "clGetDeviceInfo",
    "clCreateContext", "clCreateContextFromType", "clRetainContext", "clReleaseContext",
    "clGetContextInfo", "", "clRetainCommandQueue", "clReleaseCommandQueue",
    "clGetCommandQueueInfo", "", "clCreateBuffer", "", "", "clRetainMemObject",
    "clReleaseMemObject", "", "", "", "", "", "", "", "clCreateProgramWithSource",
    "clCreateProgramWithBinary", "clRetainProgram", "clReleaseProgram", "clBuildProgram",
    "", "", "", "clCreateKernel", "clCreateKernelsInProgram", "clRetainKernel",
    "clReleaseKernel", "clSetKernelArg", "", "", "", "", "", "", "", "clFlush", "clFinish",
    "clEnqueueReadBuffer", "clEnqueueWriteBuffer", "clEnqueueCopyBuffer", "", "", "", "",
    "", "clEnqueueMapBuffer", "", "clEnqueueUnmapMemObject", "clEnqueueNDRangeKernel", "",
    "clEnqueueNativeKernel", "", "", "", "", "", "", "", "", "", "", "", "", "", "", "", "",
    "", "", "">>

TableTo12 == <<
    "", "", "", "", "", "clEnqueueReadBufferRect", "clEnqueueWriteBufferRect",
    "clEnqueueCopyBufferRect", "", "", "", "", "", "", "", "", "", "", "", "", "",
    "clEnqueueFillBuffer", "", "", "", "", "", "">>

TableTo30 == <<
    "", "", "", "", "", "", "", "", "", "", "", "", "", "",
    "clCreateCommandQueueWithProperties", "", "", "", "", "", "", "", "", "", "", "", "",
    "", "clCloneKernel", "", "", "", "", "", "", "", "", "", "">>

\* Mutants: the first NULL is left out; in_clReleaseKernel is NULL; in_clFinish
\* is.
TableShifted ==
  SubSeq(TableTo10, 1, 9) \o SubSeq(TableTo10, 11, Len(TableTo10)) \o TableTo12 \o TableTo30 \o <<"">>
TableWithout(f) == [n \in DOMAIN Slots |-> IF Slots[n] = f THEN "" ELSE
                                             (TableTo10 \o TableTo12 \o TableTo30)[n]]
TableKernelsStay == TableWithout("clReleaseKernel")
TableNoFinish == TableWithout("clFinish")

Table == TableTo10 \o TableTo12 \o TableTo30

--------------------------------------------------------------------------
(* include/in_cl.h.  The loader finds the table of clCreateContext in the  *)
(* devices, of clCreateContextFromType in the platform among the           *)
(* properties, of clWaitForEvents in the events.                           *)

PlatformApis == [
  none |-> {
    "clGetPlatformIDs"},
  platform |-> {
    "clGetPlatformInfo", "clGetDeviceIDs"},
  device |-> {
    "clGetDeviceInfo", "clCreateSubDevices", "clRetainDevice", "clReleaseDevice",
    "clGetDeviceAndHostTimer", "clGetHostTimer"},
  context |-> {
    "clSetDefaultDeviceCommandQueue"}]

ContextApis == [
  device |-> {
    "clCreateContext"},
  platform |-> {
    "clCreateContextFromType"},
  context |-> {
    "clRetainContext", "clReleaseContext", "clGetContextInfo",
    "clCreateCommandQueueWithProperties"},
  queue |-> {
    "clRetainCommandQueue", "clReleaseCommandQueue", "clGetCommandQueueInfo"}]

MemoryApis == [
  context |-> {
    "clCreateBuffer", "clCreateImage", "clCreatePipe", "clCreateBufferWithProperties",
    "clCreateImageWithProperties", "clGetSupportedImageFormats", "clSVMAlloc", "clSVMFree"},
  mem |-> {
    "clCreateSubBuffer", "clRetainMemObject", "clReleaseMemObject", "clGetMemObjectInfo",
    "clGetImageInfo", "clGetPipeInfo", "clSetMemObjectDestructorCallback"}]

ProgramApis == [
  context |-> {
    "clCreateSamplerWithProperties", "clCreateProgramWithSource",
    "clCreateProgramWithBinary", "clCreateProgramWithBuiltInKernels",
    "clCreateProgramWithIL", "clLinkProgram"},
  sampler |-> {
    "clRetainSampler", "clReleaseSampler", "clGetSamplerInfo"},
  program |-> {
    "clRetainProgram", "clReleaseProgram", "clBuildProgram", "clCompileProgram",
    "clSetProgramReleaseCallback", "clSetProgramSpecializationConstant", "clGetProgramInfo",
    "clGetProgramBuildInfo"},
  platform |-> {
    "clUnloadPlatformCompiler"}]

KernelApis == [
  program |-> {
    "clCreateKernel", "clCreateKernelsInProgram"},
  kernel |-> {
    "clCloneKernel", "clRetainKernel", "clReleaseKernel", "clSetKernelArg",
    "clSetKernelArgSVMPointer", "clSetKernelExecInfo", "clGetKernelInfo",
    "clGetKernelArgInfo", "clGetKernelWorkGroupInfo", "clGetKernelSubGroupInfo"}]

EventApis == [
  event |-> {
    "clWaitForEvents", "clGetEventInfo", "clRetainEvent", "clReleaseEvent",
    "clSetUserEventStatus", "clSetEventCallback", "clGetEventProfilingInfo"},
  context |-> {
    "clCreateUserEvent"},
  queue |-> {
    "clFlush", "clFinish"}]

TransferApis == [
  queue |-> {
    "clEnqueueReadBuffer", "clEnqueueReadBufferRect", "clEnqueueWriteBuffer",
    "clEnqueueWriteBufferRect", "clEnqueueFillBuffer", "clEnqueueCopyBuffer",
    "clEnqueueCopyBufferRect", "clEnqueueReadImage", "clEnqueueWriteImage",
    "clEnqueueFillImage", "clEnqueueCopyImage"}]

ImageApis == [
  queue |-> {
    "clEnqueueCopyImageToBuffer", "clEnqueueCopyBufferToImage", "clEnqueueMapBuffer",
    "clEnqueueMapImage", "clEnqueueUnmapMemObject", "clEnqueueMigrateMemObjects"}]

CommandApis == [
  queue |-> {
    "clEnqueueNDRangeKernel", "clEnqueueNativeKernel", "clEnqueueMarkerWithWaitList",
    "clEnqueueBarrierWithWaitList", "clEnqueueSVMFree", "clEnqueueSVMMemcpy",
    "clEnqueueSVMMemFill", "clEnqueueSVMMap", "clEnqueueSVMUnmap", "clEnqueueSVMMigrateMem"}]

ExtensionApis == [
  platform |-> {
    "clGetExtensionFunctionAddressForPlatform"},
  context |-> {
    "clCreateImage2D", "clCreateImage3D", "clCreateCommandQueue", "clCreateSampler"},
  queue |-> {
    "clEnqueueMarker", "clEnqueueWaitForEvents", "clEnqueueBarrier", "clEnqueueTask"},
  none |-> {
    "clUnloadCompiler", "clGetExtensionFunctionAddress"}]

Declared == <<PlatformApis, ContextApis, MemoryApis, ProgramApis, KernelApis, EventApis,
              TransferApis, ImageApis, CommandApis, ExtensionApis>>

\* f is called on a handle of kind k.
CalledOn(f, k) == \E n \in DOMAIN Declared : k \in DOMAIN Declared[n] /\ f \in Declared[n][k]

\* What a call of f through the table jumps to.
Entry(f) == Table[CHOOSE n \in DOMAIN Slots : Slots[n] = f]
=============================================================================
