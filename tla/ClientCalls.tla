----------------------------- MODULE ClientCalls -----------------------------
(***************************************************************************)
(* The parts of the client (sdk/rust/src) that serve one call or one        *)
(* conversation with the API: the secrets of an unlocked vault             *)
(* (VaultSecrets), the keys of the vault (VaultKeys), sends that may be    *)
(* repeated (MessageSend), the load of a conversation (CompanionLoad),     *)
(* what an identity remembers (IdentityFacade), the lists of a mailbox and *)
(* the wait for an import (MailReads), the cookies that requests carry     *)
(* (CookieJar) and the dates they name (CookieDates), and the frame codec  *)
(* of a bridge (WsFrames).                                                 *)
(*                                                                         *)
(* They share no state: requests meet only in the cookie jar, which none   *)
(* of the others reads.  Their interleavings add nothing, and a behaviour  *)
(* exercises one of them.                                                  *)
(***************************************************************************)
EXTENDS VaultSecrets, VaultKeys, MessageSend, CompanionLoad, IdentityFacade,
        MailReads, CookieJar, CookieDates, WsFrames

VARIABLE part \* the part this behaviour exercises

allVars == <<part, vars, keyVars, sendVars, loadVars, facadeVars, mailVars,
             jarVars, dateVars, frameVars>>

Parts == {"secrets", "keys", "send", "load", "identity", "list", "wait",
          "cookies", "dates", "frames"}

\* The parts that are not exercised start in one state of theirs.
ClientInit ==
    /\ part \in Parts
    /\ Init /\ KeysInit /\ SendInit /\ LoadInit /\ FacadeInit /\ MailInit
    /\ JarInit /\ DateInit /\ FramesInit
    /\ part # "send" => kept = [m \in Messages |-> TRUE]
    /\ part # "load" => newestFirst /\ byOffset /\ Len(history) = 1
    /\ part # "identity" => identity.phone = 0 /\ identity.imessage
    /\ part # "list" => newest = 0
    /\ part # "wait" => limit = Unlimited

\* The other parts than p do not move.
Only(p) ==
    /\ part = p /\ UNCHANGED part
    /\ p # "secrets" => UNCHANGED vars
    /\ p # "keys" => UNCHANGED keyVars
    /\ p # "send" => UNCHANGED sendVars
    /\ p # "load" => UNCHANGED loadVars
    /\ p # "identity" => UNCHANGED facadeVars
    /\ p # "list" => UNCHANGED listingVars
    /\ p # "wait" => UNCHANGED waitVars
    /\ p # "cookies" => UNCHANGED jarVars
    /\ p # "dates" => UNCHANGED dateVars
    /\ p # "frames" => UNCHANGED frameVars

ClientNext ==
    \/ Only("secrets") /\ Next
    \/ Only("keys") /\ KeysNext
    \/ Only("send") /\ SendNext
    \/ Only("load") /\ LoadNext
    \/ Only("identity") /\ FacadeNext
    \/ Only("list") /\ ListStep
    \/ Only("wait") /\ WaitStep
    \/ Only("cookies") /\ JarNext
    \/ Only("dates") /\ DateNext
    \/ Only("frames") /\ FramesNext

ClientSpec == ClientInit /\ [][ClientNext]_allVars

-----------------------------------------------------------------------------
\* The part that is exercised keeps to its types.
ClientTypeOK ==
    /\ part = "secrets" => TypeOK
    /\ part = "keys" => KeysTypeOK
    /\ part = "send" => SendTypeOK
    /\ part = "load" => LoadTypeOK
    /\ part = "identity" => FacadeTypeOK
    /\ part \in {"list", "wait"} => MailTypeOK
    /\ part = "cookies" => JarTypeOK
    /\ part = "frames" => FramesTypeOK

\* DatesAreDays, where the dates are exercised.
DatesHold == part = "dates" => DatesAreDays
=============================================================================
