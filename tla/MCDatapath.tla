----------------------------- MODULE MCDatapath -----------------------------
(***************************************************************************)
(* An instance for TLC of the parts that carry data: the cipher of the     *)
(* datagrams (Ocb2), the reader of the control stream (FrameReader), the   *)
(* two ends of voice (VoiceInput, VoiceOutput) and the access control      *)
(* lists (Acl).  No variable and no property belongs to two of them, so    *)
(* that a behaviour of all five is right if each one is: part names the    *)
(* one that moves.                                                         *)
(***************************************************************************)
EXTENDS MCOcb2, MCVoiceInput, MCFrameReader, VoiceOutput, Acl

VARIABLE part

Parts == {"cipher", "reader", "input", "output", "lists"}

DataVars == <<part, vars, inputVars, readerVars, outVars, aclVars>>

DataInit == part \in Parts /\ Init /\ InputInit /\ ReaderInit /\ OutInit /\ AclInit

Cipher == part = "cipher" /\ Next /\ UNCHANGED <<part, inputVars, readerVars, outVars, aclVars>>
Input  == part = "input" /\ InputNext /\ UNCHANGED <<part, vars, readerVars, outVars, aclVars>>
Reader == part = "reader" /\ ReaderNext /\ UNCHANGED <<part, vars, inputVars, outVars, aclVars>>
Output == part = "output" /\ OutNext /\ UNCHANGED <<part, vars, inputVars, readerVars, aclVars>>
Lists  == part = "lists" /\ AclNext /\ UNCHANGED <<part, vars, inputVars, readerVars, outVars>>

\* The fairness of VoiceOutput, where it is the part that moves.
DataFairness == WF_outVars(part = "output" /\ Speaking) /\ WF_outVars(part = "output" /\ Tick)

DataSpec == DataInit /\ [][Cipher \/ Input \/ Reader \/ Output \/ Lists]_DataVars /\ DataFairness
=============================================================================
