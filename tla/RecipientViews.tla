--------------------------- MODULE RecipientViews ----------------------------
(***************************************************************************)
(* A message from a relay's custody to the recipient's vault, in four      *)
(* views: the relay's transit store and its sessions, the frames from the  *)
(* relays to the dispatcher, one conversation of the vault under the calls *)
(* that run at once, and the vault's move to a new master key.  A          *)
(* behaviour is a behaviour of one of them, and the others stay where they *)
(* start.                                                                  *)
(***************************************************************************)
EXTENDS RelayTransit, InboundPath, ConversationCache, CustodyRekey

VARIABLE part   \* the view this behaviour is about

recipientVars == <<part, relayVars, inboundVars, cacheVars, custodyVars>>

VaultInit ==
    /\ part \in {"relay", "frames", "vault", "custody"}
    /\ TransitInit /\ Init /\ CacheInit /\ CustodyInit
    /\ part # "vault" => disk = Absent /\ job = CHOOSE j \in Scenarios : TRUE
    /\ part # "custody" => custody = "keychain" /\ \A f \in File : sealed[f] # NoKey

VaultNext ==
    \/ part = "relay" /\ TransitNext /\ UNCHANGED <<part, inboundVars, cacheVars, custodyVars>>
    \/ part = "frames" /\ Next /\ UNCHANGED <<part, relayVars, cacheVars, custodyVars>>
    \/ part = "vault" /\ CacheNext /\ UNCHANGED <<part, relayVars, inboundVars, custodyVars>>
    \/ part = "custody" /\ CustodyNext /\ UNCHANGED <<part, relayVars, inboundVars, cacheVars>>

VaultSpec == VaultInit /\ [][VaultNext]_recipientVars

\* Every variable of the two views of the vault holds a value of its kind, and the
\* registry's mutex is held while a mutation writes the file and at no other time.
VaultTypeOK == CacheTypeOK /\ CustodyTypeOK
=============================================================================
