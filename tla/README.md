# A verification project for D8VK

D8VK is DXVK with a Direct3D 8 front end: it implements Direct3D 8 to 11 and
DXGI on Vulkan. This directory holds TLA+ models of its core, the TLC
configurations that check them on small instances, and theorems about them whose
proofs the TLA+ proof system checks. Paths below are relative to `src/src` of
the repository unless they begin with `src/`.

Contents: [1 the system](#1-the-system), [2 plan](#2-plan),
[3 the modules](#3-the-modules), [4 what TLC checks](#4-what-tlc-checks),
[5 disagreements](#5-where-the-code-disagrees-with-what-it-says),
[6 what is proved](#6-what-is-proved), [7 what is not modelled](#7-what-is-not-modelled),
[8 running the checks](#8-running-the-checks).

## 1 The system

A call of the application passes four actors:

```
 application thread ──chunks──> CS thread ──command lists──> submit thread ──> GPU
   D3Dx context,                DxvkContext records           vkQueueSubmit2     │
   DxvkCsChunk                  Vulkan commands               vkQueuePresent     │
        ^                                                                        v
        └── waits: SynchronizeCsThread, waitForResource ──── finish thread <── fences
                                                              notifyObjects, recycle
```

Beside them run the compiler threads (`DxvkPipelineWorkers`), the worker and
the writer of the state cache, the helper thread of each shared fence
(`DxvkFence`), and the frame thread of a presenter. Memory is handed out by one
allocator (`DxvkMemoryAllocator`) to all of them.

Components, with their state, operations, what is hard about them, and what makes
them correct:

| Component | State | Operations | What is hard | Correct when |
|---|---|---|---|---|
| Command stream thread, `dxvk/dxvk_cs.*` | queue of chunks, dispatched and executed counters, stop flag | `dispatchChunk`, `synchronize`, thread loop, destruction | two mutexes, counters read without them, `notify_one`, a chunk that throws | chunks run once and in order; `synchronize` returns, never early |
| Submission queue, `dxvk/dxvk_queue.*`, `dxvk_device.cpp` | submit and finish queue, last error, stop flag, Vulkan queue lock | `submit`, `present`, `synchronizeSubmission`, `synchronizeUntil`, `waitForIdle`, `lockDeviceQueue`, two thread loops | three condition variables for seven predicates, the front of a queue stays in it while it is handled without the lock, device loss | nothing is released before the GPU is done, no entry is lost, every waiter is woken |
| Shared fences, `dxvk/dxvk_fence.*` | timeline semaphore, heap of events, helper thread | `enqueueWait`, thread loop, destruction | the semaphore advances asynchronously; thread started on demand; polling with a timeout | an event fires once, after and whenever its value is reached |
| Device memory, `dxvk/dxvk_memory.*`, adapter statistics | chunks with free lists per memory type, heap statistics | `alloc` in its stages, `free`, eviction of empty chunks | the driver refuses memory between steps; alignment at both ends; granularity; coalescing | allocations never overlap, nothing is lost, live memory is never freed, statistics are exact |
| Compiler threads, `dxvk/dxvk_pipemanager.*` | three queues, idle counts, counters | `compile*`, `startWorkers`, `stopWorkers`, worker loop | priorities served by different workers, `notify_one` to a bucket | no job waits for another to arrive; counters exact; all threads gone at teardown |
| State cache, `dxvk/dxvk_state_cache.*` | worker queue, writer queue, file | `registerShader`, `addGraphicsPipeline`, worker, writer, file format | worker feeds the compiler threads while both are being stopped | teardown leaves no thread behind; the file can be read back |
| Buffer mapping, `d3d11/d3d11_context_imm.cpp`, `dxvk/dxvk_buffer.*` | current chunk, sequence numbers, mapped and physical slice, two free lists | `MapBuffer`, `WaitForResource`, `ExecuteFlush`, `invalidateBuffer`, `allocSlice`, `freeSlice` | a buffer is renamed twice, at different times; use is known late; the wait needs a flush | mapped memory is not raced on, shows what was recorded before; `Map` returns |
| Vulkan context, `dxvk/dxvk_context.*` | bindings, render pass, deferred clears, layouts of attachments, barriers | draws, copies, clears, `flushCommandList` | clears are put off, merged and folded into render passes; layouts of a suspended pass are noted by slot | images hold what the calls would have written in order; every transition starts from the layout the image is in |
| Resource lifetime, `dxvk/dxvk_resource.h`, `dxvk_lifetime.*` | references, reads, writes in one 64-bit word | `acquire`, `release`, `isInUse` | three counters of limited width in one atomic | no carry; in use until the GPU is done |
| Pipelines, `dxvk/dxvk_graphics.*`, `dxvk_shader.*` | instances with base and optimized handles, use count, shared libraries | `getPipelineHandle`, `compilePipeline`, `acquirePipeline`, `releasePipeline` | base pipelines are destroyed when the use count falls to zero; handles are read without the lock | a handle in use is never destroyed, an instance is never without one, each gets its optimized pipeline |
| Presentation, `d3d11/d3d11_swapchain.*`, `dxvk/dxvk_presenter.*`, `util/sync/sync_signal.h` | swap chain, acquire status, frame queue, last frame id, callbacks, present status | `Present`, `RecreateSwapChain`, `presentImage`, `signalFrame`, frame thread, destruction | no lock: five threads keep apart by a status, a wait for idle and a frame signal | nobody is in the presenter while the submit thread presents, no swap chain is destroyed while its frames are waited for; each callback runs once; `Present` returns |
| Queries, `dxvk/dxvk_gpu_query.*` | query state, handles, active queries | begin, end, result | a query spans command lists | results add up once |
| Sparse memory, `dxvk/dxvk_sparse.*` | page table, page allocator | map, resize, acquire | pages released while bound | a bound page stays allocated |
| Barriers, descriptors, staging, recycler, `dxvk/` | pools and sets | reset, allocate, recycle | reuse while the GPU still reads | as for command lists |
| Utilities, `util/` | `Rc`, `Com`, `CallbackFence`, LRU list, locks | reference counting, callbacks | check–lock–check, callback under a lock | a callback runs once |
| D3D8 state blocks, `d3d8/d3d8_state_block.*`, `d3d8_device.cpp`, with `d3d9/d3d9_stateblock.*` | mirrors of D3D9 state, blocks of two layers, recorders of two layers | setters, `Capture`, `Apply`, `Begin`/`EndStateBlock`, `Reset`, UP draws | early returns that trust the mirror; a block is applied in two layers that overlap | the mirror agrees with the device; `Apply` restores what was captured |
| D3D8 batcher, `d3d8/d3d8_batch.h`, `d3d8_device.h` | index lists per primitive type, bound buffers | `DrawPrimitive`, `StateChange`, setters, `ApplyStateBlock` | draws are executed by a later call; index lists are reused, indices have 16 bits; blocks change state behind it | a flush draws what was asked for, under the state it was asked under, and leaves the index buffer bound |
| D3D11, D3D10, D3D9, D3D8 front ends, DXGI | API objects and device state | the APIs | deferred contexts, state blocks, swap chains, window messages | what the API promises |
| Shader compilers, SPIR-V, Vulkan loader, WSI, HUD | – | translation, tables, system calls | – | – |

`PROJECT.json` lists each with its status, and the hazards of the code at the
lines where they bite.

How they interact, and where the models meet: `BufferMapping` takes for granted
what `CsThread` shows of `synchronize` and what `SubmissionQueue` shows of the
order notify, pop, recycle. `Presentation` has the path of a present through the same
threads, `RenderPass` what the CS thread does between two command lists, and
`GraphicsPipelines` the pipelines that `PipelineManager`'s jobs compile.
`PipelineManager` composes the compiler threads with
the state cache worker and with the destructor of the device that stops both.
`CommandStream` is the contract of `CsThread`, `DeviceQueue` that of `SubmissionQueue`:
each says what the rest of DXVK relies on, without threads and condition variables, and each is
implemented by the detailed model. `MemoryChunk` is the arithmetic of one chunk on which
`MemoryAllocator` builds, `D3D8Objects` what the two D3D8 models share.

## 2 Plan

The order follows how much depends on a component: first the path of a command to
the GPU and back, then what outlives a command (memory, pipelines), then
what the front ends build on both.

1. `CsThread` with its contract `CommandStream`: modelled and proved, the refinement included.
2. `SubmissionQueue` with its contract `DeviceQueue`: modelled, its invariants proved, the
   refinement included.
3. `DeviceFence`: modelled, its safety proved.
4. `MemoryChunk`, `MemoryAllocator`: modelled, all safety proved.
5. `PipelineWorkers`, composed in `PipelineManager`: modelled, its invariants proved, and what
   teardown leaves behind.
6. `BufferMapping`: modelled, its four invariants proved.
7. From the front ends: `D3D8StateBlocks` and `D3D8Batch`, modelled and proved.
8. `Presentation`: swap chain, presenter, frame thread, callback fence: modelled, its safety proved.
9. `RenderPass`: deferred clears and suspended render passes: modelled and proved.
10. `GraphicsPipelines`: handles, use counts, libraries: modelled, `HandlesAlive` proved.
11. Left to model: the packed counter of a resource with its widths and the lifetime tracker;
    queries, sparse pages, the conflict test of barrier sets; `MapImage` and deferred
    contexts of D3D11.
12. Left to prove, a contract worth stating: buffer mapping implements a buffer in program
    order (each read sees the last write before it), of which `GpuReadsInOrder` and
    `MapSeesLatest` are the two observable halves, both proved.

## 3 The modules

Conventions. A critical section that neither waits nor can be observed half-way
is one action; where a predicate is tested in one step and the thread falls asleep
in a later one, the mutex is a variable (`CsThread`), so that a lost wakeup is
possible in the model. Unlocked reads are actions of their own. Reads and writes
of atomics are sequentially consistent. A notification that comes before its
sleeper sleeps is lost. Variables carry the names of the members they stand for;
"history" variables exist for the properties alone. Definitions under
`\* Mutant:` are not part of the model: each is the code with a plausible bug,
to show that a property notices it.

**`CsThread`** (`dxvk/dxvk_cs.cpp`). `dispatchChunk` is `Dispatch` and
`DispatchNotify`, because it notifies after unlocking; `synchronize` is the
unlocked early-out `SyncLoad`, the unlocked read `SyncResolve`, and the wait
(`SyncPass`, `SyncBlock`, `SyncSleep`). `threadFunc` is `CsTest` … `CsBatchDone`;
`CsThrow` is its `catch`. `synchronize(0)` returns at once, as in the code, and
`SynchronizeSound` is about the other numbers (section 5). `Serialized` says whether callers
hold the device lock, as the front ends do. **`CommandStream`** is what callers rely on: chunks numbered
in order complete in that order, and a wait ends when its chunk is complete.

**`SubmissionQueue`** (`dxvk/dxvk_queue.cpp`, `dxvk_device.cpp`).
`submitCmdLists` is `Submit…` from `SubmitTake` to `SubmitForward` with
`SubmitToGpu` for `DxvkCommandList::submit` and `presentImage`; `finishCmdLists`
is `Finish…`. An entry is a number; the GPU (external) completes submitted
command lists in order, and may be lost. `Close`, `Stop` and `Join` are
`~DxvkDevice` and `~DxvkSubmissionQueue`. **`DeviceQueue`** is what callers rely on: command
lists are accepted while there is room, entries are given to the Vulkan queue in order, what
they use is released in order and after the GPU, and a wait for one entry or for all of them
ends once that has come. The refinement mapping is the `Contract` of `SubmissionQueue`: an entry
is given when `vkQueueSubmit2` has returned for it, before its status is stored and before it
leaves `m_submitQueue`; what a caller waits for follows from where it stands.

**`DeviceFence`** (`dxvk/dxvk_fence.cpp`). `EnqueueReached`, `EnqueueLater`,
`EnqueuePush` are the paths of `enqueueWait`, whose look at the semaphore comes before
its lock; `Thread…` is `run`. The heap is a set with `IsTop` for the order that
`operator <` gives. `Signal` is the GPU or another process.

**`MemoryChunk`** (`DxvkMemoryChunk`): alignment, taking a slice from the free list, giving it back
with coalescing, as operators; `Partition` says what a chunk must look like. **`MemoryAllocator`**
(`DxvkMemoryAllocator`, `DxvkMemory`): one `alloc` is a sequence of steps under `m_mutex` –
dedicated, shared, relaxed, then the slower memory types – with `call` as its state; at each the
driver may refuse. `Evicted` is what `freeEmptyChunks` destroys before new device memory is
allocated. Heap statistics are kept as the code keeps them: what is allocated and used in the
allocator, and both once more in the adapter. `NotifyAlloc` is the adapter's count of what is
allocated, to which the code adds what is freed as well (section 5); it is an unsigned number,
modulo `CounterRange`. `StatsExact` is about the other three. `MemoryAssumption` says of a request
what Vulkan does: what requires a dedicated allocation also prefers one; and that there are finitely
many handles of device memory (`maxMemoryAllocationCount`). `ChunkAssumption` says of the sizes that
a request no larger than a new chunk also fits into it once it is aligned, as it does when both are
powers of two. With other sizes (which `dxvk.maxChunkSize` allows) a request may find no place in
the chunk that was created for it: the chunk stays, empty, and since nothing is ever freed in it
`shouldFreeChunk` never sees it.

**`PipelineWorkers`** (`dxvk/dxvk_pipemanager.cpp`): the three queues, the workers, notification by
bucket. **`PipelineManager`**: their callers, the state cache worker, and the order in which
`~DxvkDevice` and then `~DxvkPipelineManager` stop them. The application and the CS thread call only
while the device is alive. The state cache worker may be anywhere when teardown begins, and start
compiler threads that were stopped (`restarted`) until it is joined itself; `StopAgain` and
`JoinAgain` are the second stop, in `~DxvkPipelineWorkers`. A start while `stopWorkers` joins is a
data race on its vector of threads; the model stops there, with `device` "undefined".

**`BufferMapping`** (`d3d11/d3d11_context_imm.cpp`, `d3d11_context.h`, `d3d11_buffer.h`,
`dxvk/dxvk_buffer.*`, `dxvk_context.cpp`). One buffer. The application draws with it (`Use`),
flushes, and maps it; `Map` is followed by the steps of `MapBuffer` and `WaitForResource`
(`ImplicitSync` … `WaitForResource`), since other threads run between them. Commands remember what
they should see in program order; the CS thread gives them the slice the buffer has when they
execute; the GPU reads and writes slices later still, and the finisher gives slices back after that.
`allocated` is the set of slices that `allocSlice` has ever made; from then on each of them is in
one place, which `SlicesConserved` states as a number of `Holders`. A renaming carries the number of
its place in program order (`Invalidate`). Chunks fill up and flushes happen whenever they could, so
the heuristics of `GpuFlushTracker` are not modelled but included.

**`GraphicsPipelines`** (`dxvk/dxvk_graphics.*`, `dxvk_shader.cpp`). Pipelines that
share one shader library, on a device for which `mustTrackPipelineLifetime` holds. The CS
thread tracks a pipeline, finds or creates an instance (`GetPipelineHandle`), queues its
optimization without the lock (`CompileOptimized`) and reads the two handles one after
the other (`LoadFast`, `LoadBase`). `ResetCommandList` and `FinishJob` release, by
`ReleasePipeline`, and the last release destroys what is linked. Jobs are taken in any
order, which covers the queues and threads of `PipelineWorkers`; compiling a job is one
step to claim the instance and one to store the result.

**`Presentation`** (`d3d11/d3d11_swapchain.cpp`, `dxvk/dxvk_presenter.cpp`,
`dxvk_queue.cpp`, `util/sync/sync_signal.h`). `Present` and the actions of `App` are
`D3D11SwapChain::Present`, `PresentImage`, `RecreateSwapChain` and `SyncFrameLatency`, step
by step where other threads meet them; `CsPresent`, the submit and the finish thread
handle a present; `FrameThread` is the presenter's `runFrameThread`, with or without
`VK_KHR_present_wait`. `setCallback` is two looks at the value with a lock between, and
`signal` stores and runs the callbacks under the lock. Faults are failures of the window
system, minimized windows included; `Lose` is device loss. `Spec` is the safety part,
`FairSpec` adds that each thread runs on.

**`RenderPass`** (`dxvk/dxvk_context.cpp`, `dxvk_framebuffer.cpp`). `RenderPassAssumption` says
that the views of an image have the same aspects, which leaves out planar formats, and that the
attachments of one set of targets do not overlap: D3D11 binds nothing then
(`TestRtvUavHazards`), in D3D9 it is an error of the application. The context is
sequential, so an operation is one step, written as a composition of operators on the
record `ctx` in the order of the calls in the source (`FlushClears`, `SuspendRenderPass`,
`UpdateFramebuffer`, `Begin`, `PrepareImage`, ...). The contents and the layout of each
array layer are part of it; `promised` is what the calls would have written one by one. Two views match
if they are of the same subresources, type and format, as in `matchesView`: the copy of a clear makes
a view of an array type, which does not match that of a single layer.

**`D3D8StateBlocks`** (`d3d8/d3d8_device.cpp`, `d3d8_state_block.*`, `d3d9/d3d9_stateblock.*`).
`dev` holds the D3D9 device's state and D3D8Device's mirror of it. A block is a pair of partial
functions from fields to values, one for each layer. While `recorder` is set, setters record, some
of them in one layer only. There is one texture stage, and one field `rest` for all the state that
is handed through. `mixed` is a history variable: the two layers of the block were recorded with
different values of one piece of state (section 5). The mirror of the vertex streams, `m_streams`,
is not among the mirrors here; how blocks leave it behind is in `D3D8Batch`. What shaders and
handles are is in **`D3D8Objects`**.
**`D3D8Batch`** (`d3d8/d3d8_batch.h`, `d3d8_device.h`): a batch is the index list with its offset,
minimum, maximum and count as in the source, `Width` stands for 2^16; `asked` and `under` keep what
the pending draws should draw and the states they were asked under. While the device batches, every
vertex buffer wraps a null D3D9 buffer and a flush draws from the memory of the `D3D8BatchBuffer`;
stream 0 of the D3D9 device is null throughout, and `d9` has only the index buffer and the rest of
the state. Setters are modelled by the way they flush: always (`SetState`), when the value is new
(`SetIfChanged`), never (`SetSoftwareVertexProcessing`); streams and index buffer have actions of
their own, with what each tells the batcher. `ApplyBlock` is `ApplyStateBlock` with any values: it
flushes, but D3D9 restores stream 0 without telling `m_streams` or the batcher, and from then on
(`stale`) a draw asks for another stream than the batcher has. `spoiled` marks what cannot be right:
a recording that was flushed into, and state switched without a flush.

The MC modules extend these and add only what a configuration cannot express
(`MCMemoryAllocator`: the device and the requests; `MCBufferMapping`: an assumption on
the bounds; `MCRenderPass`: views and targets; `MCGraphicsPipelines`: instances;
symmetry sets).

## 4 What TLC checks

| Run | Bounds | Distinct states | Shows |
|---|---|---|---|
| `cs` (CsThread.cfg) | 2 callers, 4 chunks, chunks may throw | 15 thousand | order, soundness (for chunk numbers) and termination of `synchronize`, termination of the destructor, and `StreamSpec`: the refinement of `CommandStream` |
| `queue_safety` (QueueSafety.cfg) | 2 callers, 2 entries, no room beyond one in flight, all failures | 1.06 million | release only after the GPU, conservation of entries, what `waitForIdle` and destruction leave behind, and `QueueSpec`: the refinement of `DeviceQueue`, with its bound on what is accepted |
| `queue_live` (QueueLive.cfg) | 1 caller, 2 entries, device loss | 25 thousand | every waiter is woken, every entry handled, destruction terminates |
| `fence` (Fence.cfg) | 3 events, values to 3, failing calls | 65 thousand | events fire once, not early, and when all values are reached |
| `memory` (Memory.cfg) | 3 memories, 2 types, chunks of 8 and 4, 3 live allocations | 1.2 million | partition, backing, the allocator's statistics, bound on empty chunks, granularity |
| `pipelines` (Pipelines.cfg) | 4 workers, 3 jobs, 1 shader of the state cache | 168 thousand | jobs are served, counted and finished; teardown at any time returns with threads gone, restarted ones included |
| `mapping` (Mapping.cfg) | 4 slices, 3 calls, all kinds of buffers | 986 thousand | exclusion and freshness of mapped memory, reads in program order, conservation of slices, `Map` returns |
| `graphics` (GraphicsPipelines.cfg) | 2 pipelines, 3 instances of which 2 can be linked, 2 compile jobs, 1 command list in flight | 154 thousand | linked pipelines and their library live as long as they are used, no instance is without a handle, all are optimized in the end |
| `present` (Presentation.cfg) | 2 calls of `Present` with intervals to 2, latency 1 and 2, with and without present wait, 1 fault, device loss | 364 thousand | the application's thread is out of the presenter while a present is worked on, no swap chain goes before its frames, callbacks run once, `Present` and destruction return |
| `render` (RenderPass.cfg) | 4 calls, an image with 2 layers and 3 views, a depth image, 5 sets of targets, 2 values | 268 thousand | deferred and merged clears leave what the calls promise; layouts are tracked |
| `d3d8_blocks` (D3D8Blocks.cfg) | 8 calls, 2 blocks, a vertex shader with declaration and function, a pixel shader, a texture, an index buffer, a value of the rest | 844 thousand | the mirror agrees with the device, `Apply` restores |
| `d3d8_batch` (D3D8Batch.cfg) | 2 draws of 1 or 2 primitives of any type, 6 values of an index, 2 states, 2 streams, symmetric in both | 0.69 million | a flush draws what was asked for, in its state, and keeps the index buffer |

`TypeOK` of a module is the first part of one of its invariants (in `cs` of
`ExecutionOrder`, in `memory` of `MemoryBacked`, in `graphics` of `HandlesAlive`, ...), so it
is checked in the same run.

Why the bounds are enough for the interesting cases:

- `cs`: four chunks let the worker hold a batch of two while two are queued, two
  callers let one sleep while the other dispatches or destroys.
- `queue_safety`: two entries with `MaxQueued = 0` fill the queue, occupy both
  threads at once and let either kind of entry fail behind or before the other.
- `fence`: three events in every order of values, equal ones included.
- `memory`: a chunk of eight holds three allocations with gaps on either side, so
  every case of coalescing occurs; three memories exhaust the device, and the
  dedicated request puts the heap under pressure, so eviction occurs.
- `pipelines`: four workers are the smallest number that has one for each lowest
  priority and two for one of them; three jobs fill a queue behind busy workers.
- `mapping`: three calls are, for instance, a draw that reads, a map that renames, and a
  draw or a map that must not be confused by the two slices then in use; there is a slice
  for each call and the first one, so allocation never runs out, and one or two slices to a new
  backing buffer, so that slices come from the free list, from the swap and from new memory.
- `graphics`: two pipelines share the library in every order of linking and destroying;
  a third instance is compiled at once; two jobs let one thread find what another
  compiles, and let the last use be a command list's or a job's.
- `present`: two calls with interval two are four presents, one more than latency two
  lets pass; one fault breaks any step of creating, acquiring or presenting once, and
  the second call meets what it left.
- `render`: four calls are, for instance, bind, clear, bind another view, draw: a clear is deferred,
  merged or folded and then met by a use of the same layer through another view, in
  another slot, or by a copy.
- `d3d8_blocks`: to record one block by applying another needs eight calls (create, capture,
  begin, apply, set, end, set, apply), and to restore one, with a call that meets
  what was restored, six; the second block lets one be applied while another is recorded.
- `d3d8_batch`: a second draw appends to the first or follows a flush that left an index
  list behind; starts of 3 and 5 with six index values reach the last value and pass it.

Fairness is as weak as the code's scheduling justifies. Threads of the library that
can run do run (WF). A thread that asks for a mutex that others take and release
again and again gets it (SF on the action that takes it): SRW locks and pthread
mutexes do not guarantee this formally, but every section they guard here is short.
The GPU executes what is submitted unless it is lost. No caller has to make a call,
no application has to flush, no condition variable wakes up unasked, and no
semaphore has to be signalled. `MapReturns` therefore holds because `Map` flushes,
not because somebody else does. In `present` each thread runs on, and the application
need not present or close; the window system answers, if only with an error. In
`graphics` only compiler threads are fair: no flush and no reset has to come.

`CHECK_DEADLOCK FALSE` stands where the system stops for good (after destruction) or
where the application may simply have no calls left.

Several properties make exceptions where the code does not do what one would ask of it:
`CallsReturn` and `PresentReturns` for a lost device or a chunk that threw, `DestroyReturns` for a
start of threads during a join (`undefined`), `MirrorAgrees` for `torn` blocks, `DrawnUnderItsState`
and `IndicesStayBound` for what is `spoiled` or `stale`, `LayoutsTracked` for what follows a clear
that went astray (`stray`). Each is a state of the model that the run reaches, and is described in
section 5.

## 5 Where the code disagrees with what it says

Noticed while modelling. None of these has a run of its own; the models follow
the code, and the properties are stated so that they hold of it.

Threads and waiting:

- After device loss `submitCmdLists` drops an entry and notifies `m_submitCond` only
  (`dxvk/dxvk_queue.cpp:161`): a thread in `waitForResource` sleeps on `m_finishCond` and is
  not woken, although the resource is free. `CallsReturn` excuses it.
- Another failure of a command list makes the submit thread call `waitForIdle`
  with `m_mutex` held (`dxvk_queue.cpp:157`, and the finish thread at 199): it locks the mutex twice.
  `queue_live` has no such failures.
- `m_queue` of a fence is a max-heap (`dxvk_fence.h:102`-`122`): an event whose value is
  reached waits behind one with a larger value, although `dxvk_fence.h:78` promises the
  event "when the semaphore reaches the given value". `FiresWhenAllReached` says what holds.
- The compiler threads are stopped before the state cache worker (`dxvk_pipemanager.cpp:383`), which
  may start them again. Then they run on while members of the device are destroyed, which
  `dxvk_device.cpp:39` says is prevented ("Stop workers explicitly in order to prevent access to
  structures that are being destroyed"). If the worker starts them while `stopWorkers` is still
  joining the old ones, it adds to the vector that is iterated over and then cleared without a lock
  (`dxvk_pipemanager.cpp:61`-`64`): undefined behaviour. `TornDown` says what is left of the
  promise.
- `synchronize(0)` is documented to wait for all chunks ("If the sequence number is 0, this will
  wait for all pending chunks to complete execution", `dxvk_cs.h:406`-`408`) and waits for none:
  `dxvk_cs.cpp:133` returns at once since 0 is never more than what has been executed.
  `SynchronizeSound` excludes it. Its callers pass `SynchronizeAll`, for which it does wait;
  `present` is documented to present synchronously (`dxvk_queue.h:112`), and only queues;
  `stopWorkers` is said to discard queued work (`dxvk_pipemanager.h:107`), and keeps the queues;
  without pipeline libraries the low-priority queue has no worker.

Memory: `freeDeviceMemory` reports the freed size with a positive sign (`dxvk_memory.cpp:488`), so
what the adapter shows as allocated (`DxvkAdapter::m_memoryAllocated`) only grows, twice for memory
that was freed. The model has it so (`NotifyAlloc`); `StatsExact` therefore says nothing of this
count.

Presentation:

- An exception of the first two calls of `RecreateSwapChain` leaves `Present`, which is
  outside of its `try`.
- On device loss the latency callback never runs, although the comment at
  `d3d11_swapchain.cpp:292` says it is signalled in that case, too.
- `~D3D11SwapChain` closes the frame latency event before pending callbacks have run.

Vulkan context: a deferred clear or discard that is executed on its own takes its
image to be in the default layout, though a suspended render pass may have left it in
another. `clearRenderTarget` prepares the image first (`dxvk_context.cpp:345`), and
`discardImageView` (1238) and `copyImageClear` (561) do not; the same happens when a view of one
format is cleared and another view of the same layers is bound, when the size of the
framebuffer changes, and with shared images. The comment at 338 relies on
`updateFramebuffer` for these barriers. The model notes it in `stray`.

D3D8:

- A strip of n triangles has n + 2 vertices; the batcher appends n (`d3d8_batch.h:185`),
  against the comment at 178, where a strip of one triangle has three. `FlushDrawsWhatWasAsked` is
  about the other types; after a strip of one primitive the next reads out of bounds.
- `CreateStateBlock` makes a wrapper that captures nothing (`d3d8_device.cpp:996`); an `Apply`
  before a `Capture` restores values nobody captured. `torn` marks this.
- Applying a block while another is recorded records the wrapper's values through setters that
  return early when the mirror already has them (`d3d8_state_block.cpp:31`-`37`,
  `d3d8_device.cpp:1077`), while the D3D9 block records them all. If such a piece of state is then set
  in one layer only, the two layers of the new block hold two values of it, and applying it
  leaves the D3D9 device and the mirror disagreeing. `mixed` marks this.
- Software vertex processing is captured in a flag that is never written, and
  recording `LightEnable(i, FALSE)` for a light that is off is lost in `D3D9StateBlock`.
- `SetRenderState(D3DRS_SOFTWAREVERTEXPROCESSING)` changes the state of the D3D9 device without
  `StateChange()` (`d3d8_device.cpp:1374`-`1383`), against the comment at `d3d8_device.h:363`-`367`:
  pending draws are then drawn with the new setting. `spoiled` marks it.
- `ApplyStateBlock` restores stream 0 in the D3D9 device only (`d3d8_device.cpp:1008`-`1011`,
  `d3d9_stateblock.h:216`-`233`): `m_streams` and the batcher keep the stream of before, so
  `GetStreamSource` returns that one and batched draws take their vertices from it. `stale` marks
  it.
- While batching, vertex buffers wrap a null D3D9 buffer (`d3d8_device.cpp:380`-`383`,
  `d3d8_batch.h:26`), so `SetStreamSource` (`d3d8_device.cpp:1250`) and the rebinding after a flush
  (`d3d8_batch.h:115`) bind null, and `DrawIndexedPrimitive`, which goes to D3D9 unbatched, has no
  vertices.
- Draws of different types are drawn by type, not in their order; `DrawIndexedPrimitive`
  and `ProcessVertices` do not flush the batcher.

## 6 What is proved

With the proof system, for all values of the constants that satisfy the assumptions
in the modules:

**`CsThreadProofs`** (assumption `CsAssumption`). The inductive invariant is
`Inv == TypeOK /\ OrderInv /\ SyncInv`. `ExecutionOrder` alone is not inductive: that
the next chunk is the right one depends on what is queued. `OrderInv` says that the
chunks that are done, those in the worker's batch and those queued are, in this order,
all dispatched numbers, without gap. `SyncInv` says what a caller in `synchronize`
knows at each of its steps: the number it waits for is at least the one it was called
for, although `m_chunksDispatched` is read without the lock. From it:

- `TypeCorrect`: `Spec => []TypeOK`;
- `ChunksInOrder`: `Spec => []ExecutionOrder` (which has `TypeOK` as its first part);
- `SynchronizeWaits`: `Spec => []SynchronizeSound`, for every chunk number, whether callers are
  serialised or not;
- `ImplementsStream`: `Spec => StreamSpec`. Each step of the thread maps to a step of
  `CommandStream` or to a stutter; the counter is the abstract completion, and the end
  of `synchronize` the end of a wait.

The same module has the proof about `DeviceFence` (`FenceAssumption`): `EventsFireOnce`,
`FenceSpec => []FiredOnceReached`. `FenceInv` says that an event that was signalled was signalled once, its
call has returned, its value is reached and it is not queued any more; and that the
value by which the helper thread fires (`seen`) is one that the semaphore has had; the value it polls for
need not be.

**`MemoryProofs`** (assumption `MemoryAssumption`). `AlignUp`, `AllocatedInside`,
`AllocPartition` and `FreePartition` are about the operators of `MemoryChunk`: taking
an aligned slice and giving one back keep a chunk partitioned and its free list
coalesced. `EmptyMeansUnused` follows: a chunk whose free list is one slice of its full
length has no allocation in it, which is the test on which eviction relies. The inductive
invariant is `IInv == Shapes /\ \A m \in Memories : Sound(m)`: the shape of the data, and
per memory that a chunk is partitioned, that a dedicated memory has one allocation and
that memory without size has none. There is one lemma per action. From it:

- `ChunksStayPartitioned`: `Spec => []ChunksPartitioned`;
- `UsedStaysAllocated`: device memory with an allocation in it is never returned;
- `MemoryStaysBacked`: `Spec => []MemoryBacked`. `BackedInv` adds to `IInv` that the
  list of a type holds chunks of that type, each at one place, and that memory that is no chunk
  has no free list and, while it exists, an allocation in it;
- `GranularityStaysRespected`: `Spec => []GranularityRespected`. `PageInv` says how the two halves of
  the code meet: an image that will share a chunk is asked for at an alignment that is a multiple
  of the granularity (unless it needs memory of its own), and every image in a chunk
  begins and ends at a multiple;
- `StatsStayExact`: `Spec => []StatsExact`, which is about the allocator's two counters and the
  adapter's count of what is used. The counters of a heap are sums over sets of memory and of
  slices, computed by the fold of the community modules. The prover knows nothing of it, so the
  lemmas on finite sums come first: the fold satisfies its own recursion (`SumsExist`,
  `SumIsValue`), does not depend on the order in which it takes elements (`SumWithout`), and a
  function that changes in some places changes its sum by what it is there (`SumChange`). Each is an
  induction over finite sets, `OneByOne`, made from the least counterexample. `StatsInv` says of
  each heap that its two counters are the sums over all memory of what is allocated and in use of
  this heap, and of a dedicated memory that it is as large as its allocation; each step moves the
  sums by what it moves the counters. A chunk never counts for more in use than its size, since its
  allocations are disjoint sets of its bytes (`LengthsFit`).

- `EmptyChunksStayBounded`: `Spec => []EmptyChunksBounded`, the only result that needs
  `ChunkAssumption`. `EmptyInv == CallInv /\ FewEmpty`. What a call still asks for is held by every
  new chunk that is large enough (`CallHeld`), so that a chunk is in use from the step that creates it;
  a chunk becomes empty by `free` only, which has just counted the empty ones like
  it (`FewEmpty`).

The proofs assume nothing else about the device: any memory types, heap sizes, requests and
any pattern of refusals.

**`SubmissionQueueProofs`** (`QueueAssumption`; callers are finitely many). `IInv == TypeOK /\
PlaceInv /\ ThreadInv /\ UseInv /\ CallInv /\ BoundInv`. The properties speak of entries at rest;
the code works on the front of a queue while it stays in it. `PlaceInv` says that entries leave
`m_submitQueue` in the order of their numbers, that those that have left it are in `m_finishQueue`,
in order, or retired, and in one of these only; `ThreadInv` what each thread knows of the front it
is working on; `UseInv` what is referenced; `CallInv` what a caller in `waitForIdle` has already
seen. From it: `ReleasedOnlyAfterGpu`, `EntriesAreConserved`, `InFlightIsBounded` and
`IdleAfterRetired`, for any number of callers, any bound on the queue and all failures.
`ImplementsDeviceQueue`, `Spec => QueueSpec`, says that it all is one queue: the abstract one
accepts, gives, releases and recycles by the same steps, and everything else (waking, sleeping,
storing the status, moving an entry from one queue to the other) stutters. Besides `IInv` it needs
`WaitInv`: a stored status is that of an entry that has been given, and so is the entry of a caller
that passed `synchronize()` and has yet to lock the Vulkan queue, although other entries are queued
meanwhile. `InFlightBounded` counts what has not retired, presents excluded, which the contract does
not speak of; it stays a theorem of its own.

**`PipelineProofs`** (`WorkersAssumption`; the pool and its composition with the state cache worker
and teardown). `IInv == TypeOK /\ IdleInv /\ RunInv /\ CountInv /\ PendingIsServed`: idle counts are
the number of sleepers of a priority (`IdleInv`), there are workers exactly while they are running
(`RunInv`), and the counters are the jobs queued and compiled; after a stop, which drops jobs, use
counts are only at least that (`CountInv`). `PendingServed` says that no queued job is left to
workers that sleep unnotified, `JobsAreAccounted` that use counts and progress are exact.
`DestroyJoinsAll`, `Spec => []TornDown`, is the safety half of `DestroyReturns`, without an
assumption on what the state cache worker is doing when the device is destroyed: once the device is
gone no thread is left. `TearInv` says that stopped compiler threads stay stopped as long as
`restarted` is false, that nobody can start them once the worker is joined, and hence that the
second stop leaves none.

**`GraphicsProofs`** (`PipelinesAssumption`). `IInv == DataInv /\ UseInv /\ LibraryInv /\
InstanceInv /\ RecordedInv`. `UseInv` is exact: `m_useCount` is the number of command lists and jobs
that hold the pipeline. An inequality would not do, since a release that comes when
the count is wrong is what destroys a handle in use. `LibraryInv` says the same of the library:
its count is the cardinality of the set of linked pipelines. `InstanceInv` says that an
instance without optimized pipeline has a job, or a thread on its way to making one. From it `HandlesStayAlive`.

The same module has the proofs about `RenderPass` (`RenderPassAssumption`). An operation is a
composition of operators on `ctx`, some of which fold over deferred clears or attachments.
`ContextInv` is `Idle(ctx) /\ Meets(ctx, promised)`. `Tracked`, a part of `Idle`, says that each
image has the layout that the context has noted for it: that of its slot in `m_rtLayouts` for an
attachment, the default one for the others. `Meets` says that the images hold what was promised once
the deferred clears have been executed on them. There is one lemma for each operator; for a fold it
is an induction on the number of elements handled, in which `Partly` says what is done of the first
n deferred clears. From it `ContentsFollowCalls` (`[]ContentsInOrder`) and `AttachmentLayouts`
(`[]LayoutsTracked`), for any images, views, targets and number of calls.

**`MappingProofs`** (`MappingAssumption`; finitely many slices). `IInv == TypeInv /\ OrderInv /\
SliceInv /\ PlaceInv /\ MapInv /\ ExclusiveInv /\ ContentsInv`. A command waits in a chunk and then
in a command list, and the commands and writes of the application are numbered. `OrderInv`: through
chunks and command lists the numbers are in program order. `SliceInv`: each command has the slice of
the last renaming numbered before it, or the one the CS thread has if no such renaming is pending;
at the end this is the mapped slice. `PlaceInv`: an allocated slice is in exactly one place, and a
slice not yet allocated in none (`OneHolder` turns that into the cardinality that `SlicesConserved`
counts). `MapInv` is what `MapBuffer` knows at each of its steps. `ExclusiveInv` and `ContentsInv`
relate pending commands to what the application may do to mapped memory and to what the slices hold.
From it `MappedStaysExclusive`, `MapsSeeLatest`, `GpuReadsAreInOrder` and `SlicesAreConserved`.

**`D3D8BatchProofs`** (`BatchSizes`). `IInv == BatchInv /\ DeviceInv /\ StateInv /\ DrawnInv`. A
batch keeps indices modulo the width of an index, and the list of an earlier batch behind its
offset; `BatchInv` says that up to the offset they are, index by index, the vertices asked for,
whose minimum and maximum it knows. `StateInv`: unless `spoiled`, what the application has bound is
what the batcher has, and the index buffer also what the device has; and what is pending was asked
under the current state and stream. From it `DrawsWhatWasAsked`, `DrawsUnderTheirState` and
`IndicesAreBound` (`[]IndicesStayBound`), for any vertices and draws.

The same module has the proofs about `D3D8StateBlocks` (`BlockAssumption`). The early returns of the
setters trust the mirror, so that the mirror agrees is what makes `Apply` correct, and conversely.
`BlockInv` therefore is about the device and the blocks together: every block covers, in its two
layers, what it promises (`Covers`); and unless a block was applied that `torn` excepts, the mirrors
agree, and the two layers of each block hold values of the same state, the promised one (`Agree`).
From it `MirrorsAgree` (`[]MirrorAgrees`) and `BlocksRestore` (`ApplyRestoresCapture`, an action
property).

**`PresentationProofs`** (`PresentationAssumption`). `IInv == TypeInv /\ FlowInv /\ NumberInv /\
CallInv /\ CallbackInv`. No lock protects the swap chain. `FlowInv` is what stands for one: while
the present status is "not ready", exactly one present is in the CS queue or the submit queue; until
`Presenter` has seen it, the swap chain exists with an acquired image; and where the application's
thread destroys or creates one, both queues of the submission queue are empty. `NumberInv`: the
frames between the last present and the frame signal are consecutive, through both queues and the
frame thread, so the frame signal only grows; on device loss the last of them may be missing.
`CallInv` and `CallbackInv`: a call's callback is to be set, is set, runs or has run. From it
`PresenterIsKept`, and `CallbacksOnce`, which includes the action property that the frame statistics
never go back although two threads write them.

Every safety property that a run checks is proved. Only model-checked are the liveness
properties, since the prover cannot handle fairness and `ENABLED` here: `EveryChunkRuns`,
`CallsReturn`, `EveryEntryRetires`, `FiresWhenAllReached`, `DestroyTerminates`, `EveryJobCompiles`,
`InstancesOptimized`, `MapReturns`, `PresentReturns`, and of `DestroyReturns` that it returns.

A module with proofs may be about two components, one after the other; their definitions
therefore have names of their own (`FenceSpec`, `ContextSpec`, `BlocksSpec`).

No module uses RECURSIVE operators, which the prover cannot handle. Where a
proof needs an induction over numbers or finite sets it is made from `NatLessThanWellFounded` and
`WFMin` on a set.

## 7 What is not modelled

- Most of the repository by lines: shader compilers, SPIR-V, headers of APIs, format and
  configuration tables, system calls, and the D3D9 to D3D11 front ends as far as they
  translate API structures. It is sequential translation without a state to go wrong over
  several steps, and far beyond what a model can say faithfully; the map therefore
  covers a small share of all lines. `PROJECT.json` gives the reason for each component.
- In the context: bindings other than render targets, barriers other than layout
  transitions, `changeImageLayout`, 3D images, mip levels, rectangles that cover an image in part, resolves
  and generation of mip levels (they spill a render pass as dispatches and copies do), queries,
  transform feedback. Pending barriers are in force at once.
- In `Presentation`: `SetFrameLatency` and the latency semaphore's count, swap chains that are half
  built after an error past `vkCreateSwapchainKHR` and the acquire status they leave behind
  (`dxvk_presenter.cpp:333`-`377`), D3D9's swap chain (similar). What is said of the presenter does
  not cover these. It is assumed that on a lost device creation and acquisition fail.
- In `GraphicsPipelines`: an optimized pipeline that fails to compile (its instance has no
  handle once the base pipeline is destroyed), `enableGraphicsPipelineLibrary = True`
  (nothing is destroyed), several base pipelines of one pipeline, the fragment shader's own
  library, compute pipelines.
- In `D3D8StateBlocks`: base vertex index, mirrors of streams, lights, software vertex
  processing. Assumed of the application: no `Reset` while a block is recorded, UP draws
  with a primitive and a format, no use of deleted vertex shaders. In `D3D8Batch`:
  `Lock` of a buffer, which the code does not order with pending draws, `DrawIndexedPrimitive` and
  `ProcessVertices`, and what exactly a recorded block holds: an applied one may hold anything.
- In `SubmissionQueue`: what a command list contains and which Vulkan queue it goes to,
  and statistics.
- In `MemoryAllocator`: import and export of memory, sparse memory, budgets of the
  driver, and addresses of mapped memory. `AllocFlags` other than those that choose
  a path.
- In `PipelineManager`: what compiling does; it takes a finite time.
- In `BufferMapping`: images, `WRITE_NO_OVERWRITE` (the application synchronises),
  deferred contexts, the initializer's own context, device loss, and the stride between
  slices of one Vulkan buffer. A use reads or writes the whole buffer.
- Weak memory: atomics with acquire and release are taken as sequentially consistent.
- Exceptions other than the one `threadFunc` catches.

## 8 Running the checks

```
tlasany CsThread.tla                                # parse a module
tlc -workers 2 -config Mapping.cfg MCBufferMapping.tla
for m in *Proofs.tla; do tlapm $m; done             # check proofs
```

The proofs take from seconds (`CsThreadProofs`) to some minutes (`MappingProofs`,
`GraphicsProofs`) each.

`PROJECT.json` is the index: runs with their configurations and expected results, the
mutants with which each property is shown to notice a bug, the map from definitions to
source lines, hazards and theorems.
