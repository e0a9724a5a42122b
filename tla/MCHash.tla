------------------------------ MODULE MCHash ------------------------------
(* What the cards hash.  The nonces of two cards with batches of different *)
(* sizes, for a job of a NiceHash pool and one of the donation.  And each  *)
(* part of a hash on the card beside the same part on the CPU: the main    *)
(* loop, what is before and after it, and cn/gpu.  And the CPU's check of   *)
(* the shares of a batch.  In a behaviour one machine runs and the others  *)
(* stay where they start.                                                  *)
EXTENDS LoopKernels, Scratchpad, CnGpu, Nonces, Verification

VARIABLE machine

MCBatch == [t \in 0..1 |-> 2 * t + 2]
MCNonceJobs ==
    {[id |-> "u", clientId |-> "me", poolId |-> 0, nicehash |-> TRUE, nonce |-> 11],
     [id |-> "d", clientId |-> "you", poolId |-> -1, nicehash |-> FALSE, nonce |-> 0]}

LoopAtRest == KernelInit /\ kind = [algo |-> "LITE", variant |-> "0"] /\ thread = 0
PadAtRest == PadInit /\ use = "plain" /\ split = 0 /\ startNonce = 0
GpuAtRest == GpuInit /\ gpuSplit = 0
NoncesAtRest == NoncesInit /\ given.id = "u"
CheckAtRest == CheckInit /\ m_algorithm = "LITE" /\ m_av = "software"

MCInit ==
    \/ machine = "loop"   /\ KernelInit /\ PadAtRest /\ GpuAtRest /\ NoncesAtRest /\ CheckAtRest
    \/ machine = "pad"    /\ LoopAtRest /\ PadInit /\ GpuAtRest /\ NoncesAtRest /\ CheckAtRest
    \/ machine = "gpu"    /\ LoopAtRest /\ PadAtRest /\ GpuInit /\ NoncesAtRest /\ CheckAtRest
    \/ machine = "nonces" /\ LoopAtRest /\ PadAtRest /\ GpuAtRest /\ NoncesInit /\ CheckAtRest
    \/ machine = "check"  /\ LoopAtRest /\ PadAtRest /\ GpuAtRest /\ NoncesAtRest /\ CheckInit

RunLoop == machine = "loop" /\ KernelNext /\ UNCHANGED <<machine, padVars, gpuVars, nonceVars, checkVars>>
RunPad == machine = "pad" /\ PadNext /\ UNCHANGED <<machine, kernelVars, gpuVars, nonceVars, checkVars>>
RunGpu == machine = "gpu" /\ GpuNext /\ UNCHANGED <<machine, kernelVars, padVars, nonceVars, checkVars>>
RunNonces == machine = "nonces" /\ NoncesNext /\ UNCHANGED <<machine, kernelVars, padVars, gpuVars, checkVars>>
RunCheck == machine = "check" /\ CheckNext /\ UNCHANGED <<machine, kernelVars, padVars, gpuVars, nonceVars>>
MCNext == RunLoop \/ RunPad \/ RunGpu \/ RunNonces \/ RunCheck
=============================================================================
