----------------------------- MODULE MCEndpoint -----------------------------
(***************************************************************************)
(* Model checking of the endpoint: how it opens and closes, the addresses  *)
(* it offers to its peers, the pipes of its exchanges, and the inproc      *)
(* transport.  The components are checked side by side: a behaviour runs   *)
(* one of them, and the others do not move.                                *)
(***************************************************************************)
EXTENDS EndpointClose, Startup, Pipe

CONSTANTS
  None,
  Addresses, Unreadable, Exchanges, Updates, MaxChanges,
  Writers, Cap, MaxOpen, MaxWrites

VARIABLES
  part,   \* the component that runs
  local, changes, netwatch, timer, panicked, addresses, update, link, negotiators, offered,
  candidates,
  netxID, pipes, c, open, listener, heard, sending, writes, sent

pathsVars == <<local, changes, netwatch, timer, panicked, addresses, update, link,
               negotiators, offered, candidates>>
inprocVars == <<netxID, pipes, c, open, listener, heard, sending, writes, sent>>
endpointVars == <<part, vars, startupVars, pathsVars, pipeVars, inprocVars>>

Paths == INSTANCE Paths WITH modules <- netwatch
Inproc == INSTANCE Inproc WITH reader <- listener

\* There are transports, callers and room to speak of.
ASSUME EndpointAssumption ==
  /\ Subs # {} /\ PipeWriters # {} /\ PipeClosers # {} /\ Writers # {}
  /\ {MaxConns, Cap} \subseteq Nat \ {0}
  /\ {MaxArrivals, MaxChanges, MaxOpen, MaxWrites, NilOptions, MaxOptions} \subseteq Nat
  /\ Unreadable \subseteq Addresses

EndpointInit ==
  /\ part \in {"close", "startup", "paths", "pipe", "inproc"}
  /\ Init /\ StartupInit /\ Paths!Init /\ PipeInit /\ Inproc!Init
  /\ part # "paths" => local = {CHOOSE a \in Addresses : TRUE}
  /\ part # "pipe" => made = 0

InClose ==
  part = "close" /\ UNCHANGED <<part, startupVars, pathsVars, pipeVars, inprocVars>>
InStartup ==
  part = "startup" /\ UNCHANGED <<part, vars, pathsVars, pipeVars, inprocVars>>
InPaths ==
  part = "paths" /\ UNCHANGED <<part, vars, startupVars, pipeVars, inprocVars>>
InPipe ==
  part = "pipe" /\ UNCHANGED <<part, vars, startupVars, pathsVars, inprocVars>>
InInproc ==
  part = "inproc" /\ UNCHANGED <<part, vars, startupVars, pathsVars, pipeVars>>

ClosingStep == InClose /\ Next
StartupStep == InStartup /\ StartupNext
PathsStep == InPaths /\ Paths!Next
PipeStep == InPipe /\ PipeNext
InprocStep == InInproc /\ Inproc!Next

EndpointNext ==
  ClosingStep \/ StartupStep \/ PathsStep \/ PipeStep \/ InprocStep

\* The fairness of the components that state a liveness property, for their own steps.
EndpointFairness ==
  /\ WF_endpointVars(InClose /\ CloseStep) /\ SF_endpointVars(InClose /\ LockToClose)
  /\ \A s \in Subs : WF_endpointVars(InClose /\ AccepterReturns(s) /\ UNCHANGED endVars)
  /\ WF_endpointVars(InClose /\ AcceptEOF) /\ SF_endpointVars(InClose /\ \E s \in Subs : Accept(s))
  /\ WF_endpointVars(InClose /\ LoopLocks)
  /\ \A u \in Updates : /\ WF_endpointVars(InPaths /\ Paths!Reset(u))
                        /\ WF_endpointVars(InPaths /\ Paths!Compare(u))
                        /\ WF_endpointVars(InPaths /\ Paths!Hooks(u))
  /\ WF_endpointVars(InPaths /\ \E u \in Updates : Paths!Fire(u))
  /\ \A x \in Exchanges : WF_endpointVars(InPaths /\ Paths!NegotiatePaths(x))
  /\ \A k \in PipeClosers : WF_endpointVars(InPipe /\ PipeCloseStep(k))
  /\ \A k \in Conns : WF_endpointVars(InPipe /\ ReaderReturns(k))
  /\ \A w \in Writers : WF_endpointVars(InInproc /\ Inproc!Write(w))
  /\ \A id \in 0..MaxOpen - 1 : WF_endpointVars(InInproc /\ Inproc!Read(id))

EndpointSpec == EndpointInit /\ [][EndpointNext]_endpointVars /\ EndpointFairness

-----------------------------------------------------------------------------
(* Properties, beside those of the components that this module extends.   *)

\* A new address is offered to the peers (endpoint_mod_netwatch.go, paths/module.go).
AddressesAreOffered == Paths!AddressesAreOffered

\* Writers to an inproc transport do not wait for ever, and what was sent is read before
\* its reader ends (inproc_transport.go, Write, Read, Close).
InprocDrains == Inproc!InprocDrains
=============================================================================
