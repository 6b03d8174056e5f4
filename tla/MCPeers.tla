------------------------------- MODULE MCPeers -------------------------------
(***************************************************************************)
(* Model checking of what an endpoint does with its peers: the book of     *)
(* paths of an exchange, its handshakes, the ciphers of its line, the way  *)
(* of a packet to its channel, the numbers and the hooks of channels, the  *)
(* registry of exchanges, the bridge that joins two endpoints through a    *)
(* third, and introductions.  The components are checked side by side: a   *)
(* behaviour runs one of them, and the others do not move.                 *)
(***************************************************************************)
EXTENDS AddressBook, Endpoint, Handshake, CS1a, ChannelRouting, Opening, Bridge

VARIABLE part   \* the component that runs

\* Bounds are numbers, and there are peers.
ASSUME PeersAssumption ==
  /\ {MaxExchanges, MaxLines, MaxPackets1a, MaxOpened} \subseteq Nat
  /\ High \subseteq OpenExchanges
  /\ Peers # {}

PeersInit ==
  /\ part \in {"book", "handshake", "cs3a", "cs1a", "routing", "registry", "bridge",
              "opening", "introduction"}
  /\ Init /\ HandshakeInit /\ CS3aInit /\ CS1aInit /\ RoutingInit /\ RegistryInit
  /\ BridgeInit /\ IntroductionInit /\ OpeningInit

BookStep ==
  part = "book" /\ Next
    /\ UNCHANGED <<part, handshakeVars, cs3aVars, cs1aVars, routingVars, registryVars,
                   bridgeVars, openingVars, introductionVars>>
HandshakeStep ==
  part = "handshake" /\ HandshakeNext
    /\ UNCHANGED <<part, vars, cs3aVars, cs1aVars, routingVars, registryVars,
                   bridgeVars, openingVars, introductionVars>>
CS3aStep ==
  part = "cs3a" /\ CS3aNext
    /\ UNCHANGED <<part, vars, handshakeVars, cs1aVars, routingVars, registryVars,
                   bridgeVars, openingVars, introductionVars>>
CS1aStep ==
  part = "cs1a" /\ CS1aNext
    /\ UNCHANGED <<part, vars, handshakeVars, cs3aVars, routingVars, registryVars,
                   bridgeVars, openingVars, introductionVars>>
RoutingStep ==
  part = "routing" /\ RoutingNext
    /\ UNCHANGED <<part, vars, handshakeVars, cs3aVars, cs1aVars, registryVars,
                   bridgeVars, openingVars, introductionVars>>
RegistryStep ==
  part = "registry" /\ RegistryNext
    /\ UNCHANGED <<part, vars, handshakeVars, cs3aVars, cs1aVars, routingVars,
                   bridgeVars, openingVars, introductionVars>>
BridgeStep ==
  part = "bridge" /\ BridgeNext
    /\ UNCHANGED <<part, vars, handshakeVars, cs3aVars, cs1aVars, routingVars,
                   registryVars, openingVars, introductionVars>>
OpeningStep ==
  part = "opening" /\ OpeningNext
    /\ UNCHANGED <<part, vars, handshakeVars, cs3aVars, cs1aVars, routingVars,
                   registryVars, bridgeVars, introductionVars>>
IntroductionStep ==
  part = "introduction" /\ IntroductionNext
    /\ UNCHANGED <<part, vars, handshakeVars, cs3aVars, cs1aVars, routingVars,
                   registryVars, bridgeVars, openingVars>>

PeersNext ==
  \/ BookStep \/ HandshakeStep \/ CS3aStep \/ CS1aStep \/ RoutingStep \/ RegistryStep
  \/ BridgeStep \/ OpeningStep \/ IntroductionStep

PeersSpec ==
  PeersInit /\ [][PeersNext]_<<part, vars, handshakeVars, cs3aVars, cs1aVars, routingVars,
                               registryVars, bridgeVars, openingVars, introductionVars>>

-----------------------------------------------------------------------------
\* Only the lines of CS1a run.
SealedSpec ==
  PeersInit /\ part = "cs1a"
    /\ [][CS1aStep]_<<part, vars, handshakeVars, cs3aVars, cs1aVars, routingVars,
                     registryVars, bridgeVars, openingVars, introductionVars>>
=============================================================================
