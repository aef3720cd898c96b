------------------------------ MODULE Enrolment ------------------------------
(***************************************************************************)
(* initialize of createFabricGateway, src/src/fabric/createFabricGateway.ts:*)
(* the two admins are enrolled with the certificate authority and kept in  *)
(* the wallet, a table of the query database (createPsqlWallet), and the   *)
(* gateways connect as the organisation's admin.  The process may end and  *)
(* be started again at any time; the table remains.                        *)
(*                                                                         *)
(* A read of the wallet that fails answers as if nothing was there, and a  *)
(* write that fails is not reported: both are faults here, and so are an   *)
(* enrolment refused and a connection refused.                             *)
(***************************************************************************)
EXTENDS Integers

CONSTANT MaxFaults      \* bound: faults

ASSUME EnrolmentAssumption == MaxFaults \in Nat

VARIABLES
    pc,         \* the step of initialize that comes next
    wallet,     \* the certificate kept for an admin, a serial number, or None
    ca,         \* has this process created the client of the authority?
    flags,      \* isCaAdminInWallet, set together with isCaAdminEnrolled
    issued,     \* the serial number the authority gave last
    missed,     \* reads of this process that failed though there was a certificate
    faults

vars == <<pc, wallet, ca, flags, issued, missed, faults>>

Label == {"caAdmin", "orgAdmin"}

None == 0

InWallet(l) == wallet[l] # None

EnrolmentTypeOK ==
    /\ pc \in {"start", "caGet", "caEnroll", "caPut", "orgGet", "orgEnroll", "orgPut",
               "connect", "connectSecond", "up", "failed"}
    /\ issued \in Nat /\ wallet \in [Label -> 0 .. issued]
    /\ ca \in BOOLEAN /\ flags \in BOOLEAN
    /\ missed \in [Label -> 0 .. 2]
    /\ faults \in 0 .. MaxFaults
    /\ pc \in {"caGet", "caEnroll", "caPut"} => ca
    /\ pc \in {"orgGet", "orgEnroll", "orgPut"} => flags

Init ==
    /\ pc = "start" /\ wallet = [l \in Label |-> None]
    /\ ca = FALSE /\ flags = FALSE /\ issued = 0
    /\ missed = [l \in Label |-> 0] /\ faults = 0

Fault == faults < MaxFaults /\ faults' = faults + 1

-----------------------------------------------------------------------------

\* wallet.get: the certificate, or undefined.
Finds(l) == InWallet(l) /\ UNCHANGED <<missed, faults>>

FindsNone(l) ==
    \/ ~InWallet(l) /\ UNCHANGED <<missed, faults>>
    \/ InWallet(l) /\ Fault /\ missed' = [missed EXCEPT ![l] = @ + 1]

\* initialize first asks the wallet for the CA admin; without it enrollCaIdentity
\* creates the client of the authority.
ReadCaAdmin ==
    /\ pc = "start"
    /\ \/ Finds("caAdmin") /\ flags' = TRUE /\ pc' = "orgGet" /\ UNCHANGED ca
       \/ FindsNone("caAdmin") /\ ca' = TRUE /\ pc' = "caGet" /\ UNCHANGED flags
    /\ UNCHANGED <<wallet, issued>>

\* enrollAndSave of the CA admin asks the wallet again: there it is, and it returns
\* undefined, of which enrollCaIdentity takes the rootCertificate.
GetCaAdmin_Always ==
    /\ pc = "caGet" /\ pc' = "caEnroll"
    /\ UNCHANGED <<wallet, ca, flags, issued, missed, faults>>

GetCaAdmin ==
    /\ pc = "caGet"
    /\ \/ Finds("caAdmin") /\ pc' = "failed"
       \/ FindsNone("caAdmin") /\ pc' = "caEnroll"
    /\ UNCHANGED <<wallet, ca, flags, issued>>

\* ca.enroll gives a new certificate each time; it is refused, or without a client
\* a TypeError.
Enroll(from, to) ==
    /\ pc = from
    /\ \/ ca /\ issued' = issued + 1 /\ pc' = to /\ UNCHANGED faults
       \/ ca /\ Fault /\ pc' = "failed" /\ UNCHANGED issued
       \/ ~ca /\ pc' = "failed" /\ UNCHANGED <<issued, faults>>
    /\ UNCHANGED <<wallet, ca, flags, missed>>

EnrollCaAdmin == Enroll("caEnroll", "caPut")

EnrollOrgAdmin == Enroll("orgEnroll", "orgPut")

\* wallet.put, which swallows its failure.
Put(l) ==
    \/ wallet' = [wallet EXCEPT ![l] = issued] /\ UNCHANGED faults
    \/ Fault /\ UNCHANGED wallet

PutCaAdmin ==
    /\ pc = "caPut" /\ Put("caAdmin") /\ flags' = TRUE /\ pc' = "orgGet"
    /\ UNCHANGED <<ca, issued, missed>>

GetOrgAdmin_Refuses ==
    /\ pc = "orgGet"
    /\ \/ Finds("orgAdmin") /\ pc' = "failed"
       \/ FindsNone("orgAdmin") /\ pc' = "orgEnroll"
    /\ UNCHANGED <<wallet, ca, flags, issued>>

\* enrollAndSave of the organisation's admin, whose result is not used.
GetOrgAdmin ==
    /\ pc = "orgGet"
    /\ \/ Finds("orgAdmin") /\ pc' = "connect"
       \/ FindsNone("orgAdmin") /\ pc' = "orgEnroll"
    /\ UNCHANGED <<wallet, ca, flags, issued>>

PutOrgAdmin ==
    /\ pc = "orgPut" /\ Put("orgAdmin") /\ pc' = "connect"
    /\ UNCHANGED <<ca, flags, issued, missed>>

\* gateway.connect takes the identity from the wallet, then getNetwork.
Connect(from, to) ==
    /\ pc = from
    /\ \/ Finds("orgAdmin") /\ pc' = to
       \/ FindsNone("orgAdmin") /\ pc' = "failed"
       \/ InWallet("orgAdmin") /\ Fault /\ pc' = "failed" /\ UNCHANGED missed
    /\ UNCHANGED <<wallet, ca, flags, issued>>

ConnectGateway == Connect("connect", "connectSecond")

ConnectNonDiscovery == Connect("connectSecond", "up")

Initialize ==
    \/ ReadCaAdmin \/ GetCaAdmin \/ EnrollCaAdmin \/ PutCaAdmin
    \/ GetOrgAdmin \/ EnrollOrgAdmin \/ PutOrgAdmin
    \/ ConnectGateway \/ ConnectNonDiscovery

\* A new process: everything but the table is gone.
NewProcess ==
    /\ pc' = "start" /\ ca' = FALSE /\ flags' = FALSE
    /\ missed' = [l \in Label |-> 0]
    /\ UNCHANGED <<wallet, issued>>

\* After a crash, an exit or on purpose: the module Platform says when.
Restart == NewProcess /\ (UNCHANGED faults \/ Fault)

\* Something else fails, in a part of the process that is not the gateway.
FaultElsewhere == Fault /\ UNCHANGED <<pc, wallet, ca, flags, issued, missed>>

Next == Initialize \/ Restart \/ FaultElsewhere

Spec == Init /\ [][Next]_vars

-----------------------------------------------------------------------------

\* A certificate in the wallet is replaced only when each time the process asked
\* for it the read had failed: twice for the CA admin, once for the other.
Asked(l) == IF l = "caAdmin" THEN 2 ELSE 1

CertificateKept ==
    [][\A l \in Label :
          InWallet(l) /\ wallet'[l] # wallet[l] => missed[l] >= Asked(l)]_vars

\* The wallet that initialize cannot get past: it has the CA admin and not the
\* organisation's, and the process has no client to enroll the latter with.
HalfEnrolled == ~ca /\ InWallet("caAdmin") /\ ~InWallet("orgAdmin")

=============================================================================
