------------------------------ MODULE Upstream ------------------------------
(***************************************************************************)
(* An inside broker registered with an outside one (upstream.go). The       *)
(* outside broker is Registry, and the inside broker is one of its daemons: *)
(* the cedar listener that startUpstream runs registers, comes back with    *)
(* the credential it holds, and returns its contact from Contact. Added     *)
(* here is what the inside broker makes of that contact: watchTunnelReady,  *)
(* the ready file, and the contacts it hands out in its turn                *)
(* (contactString, handleGetTunnelAddress).                                 *)
(*                                                                         *)
(* A contact via the outside broker is modelled by its CCBID there.        *)
(***************************************************************************)
EXTENDS Registry

CONSTANT Inside   \* the daemon that is an inside broker

\* The null value is no contact either.
ASSUME InsideOK == Inside \in Daemons /\ None \notin Nat

VARIABLES
    tunnelContact, \* Server.tunnelContact
    tunnelReady,   \* Server.tunnelReady is closed
    wpc,           \* where watchTunnelReady is
    tmpFile,       \* the ready file under its temporary name
    readyFile,     \* the ready file
    handedOut      \* what it hands out to registrants and masters begins with these

inside == <<tunnelContact, tunnelReady, wpc, tmpFile, readyFile, handedOut>>
allVars == <<vars, inside>>

\* A contact that begins with the broker's own public address.
Plain == 0

-----------------------------------------------------------------------------
InitUpstream ==
    /\ Init
    /\ tunnelContact = None
    /\ tunnelReady = FALSE
    /\ wpc = "poll"
    /\ tmpFile = None
    /\ readyFile = None
    /\ handedOut = {}

-----------------------------------------------------------------------------
(* watchTunnelReady *)

\* A tick finds the first contact. It is stored, and never looked for again.
Publish ==
    /\ wpc = "poll" /\ cred[Inside] # None
    /\ tunnelContact' = cred[Inside].id
    /\ wpc' = "file"
    /\ UNCHANGED <<vars, tunnelReady, tmpFile, readyFile, handedOut>>

\* writeReadyFile: the temporary file.
WriteTmp ==
    /\ wpc = "file"
    /\ tmpFile' = tunnelContact
    /\ wpc' = "rename"
    /\ UNCHANGED <<vars, tunnelContact, tunnelReady, readyFile, handedOut>>

\* No ready file is configured, or the temporary one cannot be written.
NoTmp ==
    /\ wpc = "file"
    /\ wpc' = "close"
    /\ UNCHANGED <<vars, tunnelContact, tunnelReady, tmpFile, readyFile, handedOut>>

\* Mutant: a file that cannot be installed ends the watch.
Mut_Install ==
    /\ wpc = "rename"
    /\ \/ readyFile' = tmpFile /\ wpc' = "close"
       \/ wpc' = "done" /\ UNCHANGED readyFile
    /\ tmpFile' = None
    /\ UNCHANGED <<vars, tunnelContact, tunnelReady, handedOut>>

\* The rename; when it fails the temporary file is removed.
Install ==
    /\ wpc = "rename"
    /\ readyFile' \in {readyFile, tmpFile}
    /\ tmpFile' = None
    /\ wpc' = "close"
    /\ UNCHANGED <<vars, tunnelContact, tunnelReady, handedOut>>

CloseReady ==
    /\ wpc = "close"
    /\ tunnelReady' = TRUE
    /\ wpc' = "done"
    /\ UNCHANGED <<vars, tunnelContact, tmpFile, readyFile, handedOut>>

watchTunnelReady == Publish \/ WriteTmp \/ NoTmp \/ Install \/ CloseReady

-----------------------------------------------------------------------------
(* What is handed out *)

\* contactString, in the reply to a local registrant.
Stamp ==
    /\ handedOut' = handedOut \cup {IF tunnelContact # None THEN tunnelContact ELSE Plain}
    /\ UNCHANGED <<vars, tunnelContact, tunnelReady, wpc, tmpFile, readyFile>>

\* handleGetTunnelAddress, of a master that is authorized.
TellMaster ==
    /\ tunnelContact # None
    /\ handedOut' = handedOut \cup {tunnelContact}
    /\ UNCHANGED <<vars, tunnelContact, tunnelReady, wpc, tmpFile, readyFile>>

\* The inside process ends, is started again and knows nothing; its files stay.
\* Its registrants register again, and masters ask again.
InsideRestarts ==
    /\ cred[Inside] # None
    /\ cred' = [cred EXCEPT ![Inside] = None]
    /\ link' = [c \in Conns |-> IF link[c] = "up" /\ req[c].daemon = Inside THEN "down" ELSE link[c]]
    /\ tunnelContact' = None
    /\ tunnelReady' = FALSE
    /\ wpc' = "poll"
    /\ handedOut' = {}
    /\ UNCHANGED <<now, table, pc, req, reg, stale, store, tmpFile, readyFile>>

-----------------------------------------------------------------------------
\* Which of the unused connections is dialed makes no difference.
NextUnused == CHOOSE c \in Conns : pc[c] = "idle"

Outside ==
    /\ Next
    /\ \A c \in Conns : pc[c] = "idle" /\ pc'[c] # "idle" => c = NextUnused
    /\ UNCHANGED inside

NextUpstream ==
    \/ Outside
    \/ watchTunnelReady \/ Stamp \/ TellMaster \/ InsideRestarts

\* The watcher's ticker goes on; nobody need register, ask or restart.
UpstreamSpec ==
    /\ InitUpstream /\ [][NextUpstream]_allVars
    /\ WF_allVars(watchTunnelReady)

-----------------------------------------------------------------------------
\* Whatever the inside broker has handed out leads to no other daemon, nor does a
\* ready file of an earlier life: if the CCBID in it is being served by the outside
\* broker, it is served over a connection of the inside broker. The contact is
\* cached when it is first seen, while registrations come, go, and lose their
\* replies. (Of one lifetime of the outside broker.)
HandedOutLeadsHome ==
    \A id \in (handedOut \cup {readyFile}) \ {Plain, None} :
        targets[id] # None => req[targets[id]].daemon = Inside

\* WaitTunnelReady is a barrier: once it returns there is a contact to hand out.
\* And the cached contact is the one that the inside broker is registered under
\* now, although it is never looked for again: as long as the outside broker
\* keeps its reconnect records, every re-registration gets the same CCBID. That
\* takes an inside broker that comes back from the address it registered from,
\* or a broker that allows any: from another address it is given a new CCBID, and
\* the cached contact is the old one.
ContactIsCurrent ==
    /\ tunnelReady => tunnelContact # None
    /\ Faults = {} /\ ~Persistent /\ tunnelContact # None =>
          cred[Inside] # None /\ cred[Inside].id = tunnelContact

\* A registration upstream is announced, whether or not the ready file can be
\* written, unless the inside broker restarts.
ContactAnnounced == (cred[Inside] # None) ~> (tunnelReady \/ cred[Inside] = None)
=============================================================================
