------------------------------ MODULE MCEthernet ------------------------------
(***************************************************************************)
(* The Ethernet driver for TLC.  Reception and transmission share no state *)
(* of the models: part says which of them this behaviour is about, and the *)
(* other stays where it starts.                                            *)
(*   "rx"       frames in, with a link that goes down and up               *)
(*   "steadyRx" the same with a link that stays up, and fair               *)
(*   "tx"       frames out, with a link that goes down and up, up to the   *)
(*              first moment two threads are in low_level_output at once   *)
(*   "steadyTx" the same with a link that stays up, traffic, and fair      *)
(***************************************************************************)
EXTENDS EthRx

CONSTANTS
  TxDescs,  \* ETH_TX_DESC_CNT
  TxOthers  \* packets of the holder of the lock other than the segment

VARIABLES part, txState, own, buf, addr, cur, dma, rel, inUse, saved, busy, txSem, refs,
          pc, pk, num, idx, tcp, crossed

txVars == <<txState, own, buf, addr, cur, dma, rel, inUse, saved, busy, txSem, refs,
            pc, pk, num, idx, tcp, crossed>>
allVars == <<vars, txVars, part>>

Up == INSTANCE EthRx WITH Flaps <- FALSE
Tx == INSTANCE EthTx WITH
  Descs <- TxDescs, Others <- TxOthers, Flaps <- TRUE, Traffic <- FALSE,
  state <- txState, sem <- txSem
Busy == INSTANCE EthTx WITH
  Descs <- TxDescs, Others <- TxOthers, Flaps <- FALSE, Traffic <- TRUE,
  state <- txState, sem <- txSem

ASSUME SendAssumption == Tx!TxAssumption /\ Busy!TxAssumption

SuiteInit ==
  /\ part \in {"rx", "steadyRx", "tx", "steadyTx"}
  /\ Init
  /\ IF part = "tx" THEN Tx!Init ELSE Busy!Init

RxPart == part = "rx" /\ Next /\ UNCHANGED <<txVars, part>>
SteadyRxPart == part = "steadyRx" /\ Up!Next /\ UNCHANGED <<txVars, part>>
TxPart == part = "tx" /\ ~crossed /\ Tx!Next /\ UNCHANGED <<vars, part>>
\* Bound: nothing is followed behind the first crossing.
Crossing == part = "tx" /\ crossed /\ UNCHANGED allVars
SteadyTxPart == part = "steadyTx" /\ Busy!Next /\ UNCHANGED <<vars, part>>

SuiteNext == RxPart \/ SteadyRxPart \/ TxPart \/ Crossing \/ SteadyTxPart

\* The fairness of each module for its steady part.
SuiteSpec ==
  /\ SuiteInit /\ [][SuiteNext]_allVars
  /\ WF_vars(part = "steadyRx" /\ EthIf)
  /\ \A f \in Freers : SF_vars(part = "steadyRx" /\ Freeing(f))
  /\ WF_txVars(part = "steadyTx" /\ Busy!Output("tcpip"))
  /\ WF_txVars(part = "steadyTx" /\ Busy!Send)
  /\ SF_txVars(part = "steadyTx" /\ Busy!OutputSegment)
  /\ SF_txVars(part = "steadyTx" /\ Busy!Retransmit)
  /\ SF_txVars(part = "steadyTx" /\ \E p \in TxOthers : Busy!OutputOther(p))

-----------------------------------------------------------------------------
(* Properties of the parts, under the names of this run.                      *)

\* With a link that stays up: an exhausted receive pool has a free to wait for, and
\* descriptors without a buffer have somebody to build them.
SteadySupplied == part = "steadyRx" => Supplied

\* With a link that stays up a DMA that ran out of descriptors gets one.
SteadyResumes == part = "steadyRx" => Resumes

\* References of the driver to packets are exact; what the DMA sends is referenced; the
\* release walks over a window without a gap; a segment in the ring is not written.  With
\* a link that stays up always, whatever the threads do; with one that flaps as long as the
\* ARP packet of the link thread, which takes no core lock, has not crossed another output.
TxSafe ==
  /\ part = "tx" /\ ~crossed => Tx!TxSafe
  /\ part = "steadyTx" => Busy!TxSafe

\* With the link up and steady traffic low_level_output returns, and a lost segment is
\* sent again.
OutputReturns == part = "steadyTx" => Busy!OutputReturns
Retransmitted == part = "steadyTx" => Busy!Retransmitted
=============================================================================
