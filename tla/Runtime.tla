------------------------------- MODULE Runtime -------------------------------
(***************************************************************************)
(* The four parts of klava that wait for others while they work: the chain *)
(* of extensions a request goes through (ExtensionChain), the setup hook   *)
(* of an extension behind its lock (SetupLock), the search loop of a       *)
(* streaming request (SearchStream), and the converter of a Messages       *)
(* stream (AnthropicStream).  A chain and a stream are created for one     *)
(* request, and setup is a command of its own: none shares state with      *)
(* another.  So a behaviour follows one of them, the subject, and the      *)
(* others stay as they began.                                              *)
(***************************************************************************)
EXTENDS ExtensionChain, SetupLock, SearchStream, AnthropicStream

VARIABLE subject

runtimeVars == <<subject, chainVars, setupVars, searchVars, messagesVars>>

(* The values an idle subject has.                                         *)
ChainRests == ChainInit /\ ~requireDecide /\ failClosed = {}
SetupRests == SetupInit /\ want = [p \in Procs |-> "needed"]

RuntimeInit ==
  \/ subject = "chain" /\ ChainInit /\ SetupRests /\ SearchInit /\ MessagesInit
  \/ subject = "setup" /\ ChainRests /\ SetupInit /\ SearchInit /\ MessagesInit
  \/ subject = "search" /\ ChainRests /\ SetupRests /\ SearchInit /\ MessagesInit
  \/ subject = "messages" /\ ChainRests /\ SetupRests /\ SearchInit /\ MessagesInit

OfChain(step_) ==
  subject = "chain" /\ step_ /\ UNCHANGED <<subject, setupVars, searchVars, messagesVars>>
OfSetup(step_) ==
  subject = "setup" /\ step_ /\ UNCHANGED <<subject, chainVars, searchVars, messagesVars>>
OfSearch(step_) ==
  subject = "search" /\ step_ /\ UNCHANGED <<subject, chainVars, setupVars, messagesVars>>
OfMessages(step_) ==
  subject = "messages" /\ step_ /\ UNCHANGED <<subject, chainVars, setupVars, searchVars>>

RuntimeNext ==
  OfChain(ChainNext) \/ OfSetup(SetupNext) \/ OfSearch(SearchNext) \/ OfMessages(MessagesNext)

(* What is sure to go on.  Every await of the chain is bounded: a process  *)
(* by its timeout, a decide call by DECIDE_TIMEOUT_SECS, a nested call by  *)
(* the client's timeouts.  Time passes.  The client polls its stream, and  *)
(* an upstream that is silent is cut off by the read timeout of the HTTP   *)
(* client, which ends the bytes with an error.  Only the subject moves, so *)
(* one condition serves them all but setup, where each process goes on by  *)
(* itself once it has asked for the lock.  A hook may run for ever.        *)
Progress ==
  OfChain(ChainNext) \/ OfSetup(Tick) \/ OfSearch(Drive) \/ OfMessages(Convert)

RuntimeSpec ==
  /\ RuntimeInit /\ [][RuntimeNext]_runtimeVars
  /\ WF_runtimeVars(Progress)
  /\ \A p \in Procs : WF_runtimeVars(OfSetup(RunWith(p)))

-----------------------------------------------------------------------------
(* Everything that waits for others ends.  No extension, classifier or     *)
(* nested model can keep a client waiting for ever; no setup waits for     *)
(* ever, not even for a hook that hangs or behind a lock whose owner died; *)
(* the answer of a searching request ends, however often the model wants   *)
(* to search; and convert() ends, whatever upstream sends.                 *)
Over ==
  CASE subject = "chain"    -> stage = "over" /\ status # "pending"
    [] subject = "setup"    -> \A p \in Procs : pc[p] \in {"check", "done", "dead"}
    [] subject = "search"   -> step = "ended"
    [] subject = "messages" -> phase = "done"

EverythingEnds == <>[]Over
=============================================================================
