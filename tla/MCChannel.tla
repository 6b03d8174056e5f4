--------------------------- MODULE MCChannel ---------------------------
(***************************************************************************)
(* Model checking of channel.go: the two sides of a channel, and the loops *)
(* of its buildMissList.  The two are checked side by side: a behaviour    *)
(* runs one of them, and the other does not move.                          *)
(***************************************************************************)
EXTENDS Channel

CONSTANTS
  ListWindow,            \* cReadBufferSize of the loops
  SeqModulus, MaxRead

ASSUME PartsAssumption ==
  ListWindow \in Nat /\ ListWindow > 1 /\ MaxRead + ListWindow < SeqModulus

VARIABLES
  part,   \* the component that runs
  listISeq, listISeenSeq, listBuffer, seq, last, miss, i, pc

listVars == <<listISeq, listISeenSeq, listBuffer, seq, last, miss, i, pc>>

List == INSTANCE MissListLoop
          WITH cReadBufferSize <- ListWindow, iSeq <- listISeq,
               iSeenSeq <- listISeenSeq, readBuffer <- listBuffer

PartsInit ==
  /\ part \in {"channel", "list"}
  /\ Init /\ List!Init
  /\ part # "list" => listISeq = 0 /\ listISeenSeq = 0

InChannel == part = "channel" /\ UNCHANGED <<part, listVars>>
InList == part = "list" /\ UNCHANGED <<part, vars>>

ChannelStep == InChannel /\ Next
ListStep == InList /\ List!Next

PartsNext == ChannelStep \/ ListStep

partsVars == <<part, vars, listVars>>
PartsSpec == PartsInit /\ [][PartsNext]_partsVars

-----------------------------------------------------------------------------
(* Properties, beside those of Channel.                                    *)

\* The loops of buildMissList build the list that the channel model uses, which asks
\* for every gap of the window and does not wrap.
LoopsBuildTheList == List!LoopsBuildTheList
=============================================================================
