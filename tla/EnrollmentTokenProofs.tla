----------------------- MODULE EnrollmentTokenProofs -----------------------
(***************************************************************************)
(* An enrollment token is never charged for more devices than it has       *)
(* certified, for any number of tokens and of concurrent enrollments.      *)
(*                                                                         *)
(* NeverOvercharged is not inductive: the count that a request writes is   *)
(* one it has read before, from a document that others have written since. *)
(* The invariant adds to the charges of a token, and to every count in     *)
(* hand, the charges that are still due for certificates already stored.   *)
(***************************************************************************)
EXTENDS EnrollmentProofs, FiniteSetTheorems

\* The stages between the insert of a certificate and its charge.
ChargeStages == {"bind", "findToken", "consume"}

\* The enrollments on t whose certificate is stored and not charged yet.
Uncharged(t) ==
    {r \in Reqs : /\ kind[r] = "enroll" /\ tok[r] = t
                  /\ pc[r] \in ChargeStages}

\* The charges that t is still to get for devices it has certified.
Due(t) == Cardinality(Uncharged(t))

\* What a token has been charged and is due was certified on it.
UsesCovered ==
    \A t \in Tokens : token[t] # None => token[t].used + Due(t) <= enrolled[t]

\* So is what a request is about to write from a count that may be stale.
CountsCovered ==
    \A r \in Reqs :
        pc[r] = "consume" => count[r] + Due(tok[r]) <= enrolled[tok[r]]

ChargesCovered == UsesCovered /\ CountsCovered

\* What is due is a number, as requests in flight are finitely many.
LEMMA DueIsNat ==
    ASSUME NEW t
    PROVE  IsFiniteSet(Uncharged(t)) /\ Due(t) \in Nat
<1>1. Uncharged(t) \subseteq Reqs
  BY DEF Uncharged, ChargeStages
<1>. QED
  BY <1>1, EnrollmentAssumption, FS_Subset, FS_CardinalityType DEF Due

\* A step that adds nothing to what is due, charges nothing and reads no count.
LEMMA ChargesKept ==
    ASSUME IInv, ChargesCovered, enrolled' = enrolled,
           \A t \in Tokens : token'[t] # None =>
              token[t] # None /\ token'[t].used = token[t].used,
           \A q \in Reqs : kind'[q] = "enroll" /\ pc'[q] \in ChargeStages =>
              /\ kind[q] = "enroll" /\ pc[q] \in ChargeStages
              /\ tok'[q] = tok[q],
           \A q \in Reqs : pc'[q] = "consume" =>
              pc[q] = "consume" /\ count'[q] = count[q] /\ tok'[q] = tok[q]
    PROVE  ChargesCovered'
<1>1. ASSUME NEW t PROVE Due(t)' <= Due(t) /\ Due(t) \in Nat /\ Due(t)' \in Nat
  <2>1. Uncharged(t)' \subseteq Uncharged(t)
    BY DEF Uncharged, ChargeStages
  <2>. QED
    BY <2>1, DueIsNat, FS_Subset, FS_CardinalityType DEF Due
<1>2. UsesCovered'
  <2>. SUFFICES ASSUME NEW t \in Tokens, token'[t] # None
                PROVE  token'[t].used + Due(t)' <= enrolled'[t]
    BY DEF UsesCovered
  <2>1. token[t] # None /\ token'[t].used = token[t].used
    OBVIOUS
  <2>2. token[t].used + Due(t) <= enrolled[t]
    BY <2>1 DEF ChargesCovered, UsesCovered
  <2>3. token[t].used \in Nat /\ enrolled[t] \in Nat
    BY <2>1 DEF IInv, TypeOK, TokenDoc
  <2>. QED
    BY <1>1, <2>1, <2>2, <2>3
<1>3. CountsCovered'
  <2>. SUFFICES ASSUME NEW q \in Reqs, pc'[q] = "consume"
                PROVE  (count[q] + Due(tok[q]) <= enrolled[tok[q]])'
    BY DEF CountsCovered
  <2>1. pc[q] = "consume" /\ count'[q] = count[q] /\ tok'[q] = tok[q]
    OBVIOUS
  <2>2. count[q] + Due(tok[q]) <= enrolled[tok[q]]
    BY <2>1 DEF ChargesCovered, CountsCovered
  <2>3. tok[q] \in Tokens
    BY <2>1 DEF IInv, KindAtStage
  <2>4. count[q] \in Nat /\ enrolled[tok[q]] \in Nat
    BY <2>3 DEF IInv, TypeOK
  <2>5. PICK t : t = tok[q]
    OBVIOUS
  <2>6. Due(t)' <= Due(t) /\ Due(t) \in Nat /\ Due(t)' \in Nat
    BY <1>1
  <2>. QED
    BY <2>1, <2>2, <2>4, <2>5, <2>6
<1>. QED
  BY <1>2, <1>3 DEF ChargesCovered

\* The insert of a certificate makes one charge due and counts one device.
LEMMA StoreCovered ==
    ASSUME IInv, ChargesCovered, NEW r \in Reqs, StoreCertificate(r),
           kind[r] = "enroll"
    PROVE  ChargesCovered'
<1>0. PICK s : s = tok[r]
  OBVIOUS
<1>1. s \in Tokens /\ pc[r] = "store"
  BY <1>0 DEF IInv, KindAtStage, StoreCertificate, Step
<1>2. /\ token' = token /\ count' = count /\ tok' = tok /\ kind' = kind
      /\ pc' = [pc EXCEPT ![r] = "bind"]
      /\ enrolled' = [enrolled EXCEPT ![s] = @ + 1]
  BY <1>0 DEF StoreCertificate, Step, local
<1>3. pc \in [Reqs -> Stages] /\ enrolled \in [Tokens -> Nat]
  BY DEF IInv, TypeOK
<1>4. Due(s)' = Due(s) + 1
  <2>1. Uncharged(s)' = Uncharged(s) \union {r} /\ r \notin Uncharged(s)
    BY <1>0, <1>1, <1>2, <1>3 DEF Uncharged, ChargeStages
  <2>. QED
    BY <2>1, DueIsNat, FS_AddElement DEF Due
<1>5. \A x : x # s => Due(x)' = Due(x)
  <2>. SUFFICES ASSUME NEW x, x # s PROVE Uncharged(x)' = Uncharged(x)
    BY DEF Due
  <2>. QED
    BY <1>0, <1>2, <1>3 DEF Uncharged, ChargeStages
<1>6. \A x \in Tokens :
         enrolled'[x] = IF x = s THEN enrolled[x] + 1 ELSE enrolled[x]
  BY <1>1, <1>2, <1>3
<1>7. \A x \in Tokens : Due(x) \in Nat /\ enrolled[x] \in Nat
  BY DueIsNat, <1>3
<1>8. UsesCovered'
  <2>. SUFFICES ASSUME NEW x \in Tokens, token[x] # None
                PROVE  token[x].used + Due(x)' <= enrolled'[x]
    BY <1>2 DEF UsesCovered
  <2>1. token[x].used \in Nat
    BY DEF IInv, TypeOK, TokenDoc
  <2>2. token[x].used + Due(x) <= enrolled[x]
    BY DEF ChargesCovered, UsesCovered
  <2>3. CASE x = s
    BY <1>1, <1>4, <1>6, <1>7, <2>1, <2>2, <2>3
  <2>4. CASE x # s
    BY <1>5, <1>6, <2>2, <2>4
  <2>. QED
    BY <2>3, <2>4
<1>9. CountsCovered'
  <2>. SUFFICES ASSUME NEW q \in Reqs, pc'[q] = "consume"
                PROVE  (count[q] + Due(tok[q]) <= enrolled[tok[q]])'
    BY DEF CountsCovered
  <2>1. pc[q] = "consume" /\ tok[q] \in Tokens /\ count[q] \in Nat
    BY <1>2, <1>3 DEF IInv, KindAtStage, TypeOK
  <2>2. count[q] + Due(tok[q]) <= enrolled[tok[q]]
    BY <2>1 DEF ChargesCovered, CountsCovered
  <2>3. PICK x \in Tokens : x = tok[q]
    BY <2>1
  <2>. QED
    BY <1>2, <1>4, <1>5, <1>6, <1>7, <2>1, <2>2, <2>3
<1>. QED
  BY <1>8, <1>9 DEF ChargesCovered

\* Whatever count it has read, a request writes no more uses than devices: its
\* own charge is no longer due.
LEMMA ConsumeCovered ==
    ASSUME IInv, ChargesCovered, NEW r \in Reqs, ConsumeToken(r)
    PROVE  ChargesCovered'
<1>0. PICK s : s = tok[r]
  OBVIOUS
<1>1. /\ s \in Tokens /\ token[s] # None
      /\ pc[r] = "consume" /\ kind[r] = "enroll"
  BY <1>0 DEF IInv, KindAtStage, ConsumeToken
<1>2. /\ token' = [token EXCEPT ![s] = Consumed(s, count[r])]
      /\ enrolled' = enrolled
      /\ \A q \in Reqs \ {r} : /\ pc'[q] = pc[q] /\ kind'[q] = kind[q]
                              /\ tok'[q] = tok[q] /\ count'[q] = count[q]
      /\ pc'[r] = "idle"
  BY <1>0 DEF ConsumeToken, Finish, IInv, TypeOK
<1>3. /\ enrolled \in [Tokens -> Nat] /\ count[r] \in Nat
      /\ token \in [Tokens -> TokenDoc \union {None}]
  BY DEF IInv, TypeOK
<1>4. Due(s)' = Due(s) - 1 /\ Due(s)' \in Nat
  <2>1. Uncharged(s)' = Uncharged(s) \ {r} /\ r \in Uncharged(s)
    BY <1>0, <1>1, <1>2 DEF Uncharged, ChargeStages
  <2>2. IsFiniteSet(Uncharged(s)')
    BY <2>1, DueIsNat, FS_RemoveElement
  <2>. QED
    BY <2>1, <2>2, DueIsNat, FS_RemoveElement, FS_CardinalityType DEF Due
<1>5. \A x : x # s => Due(x)' = Due(x)
  <2>. SUFFICES ASSUME NEW x, x # s PROVE Uncharged(x)' = Uncharged(x)
    BY DEF Due
  <2>. QED
    BY <1>0, <1>1, <1>2 DEF Uncharged, ChargeStages
<1>6. \A x \in Tokens : Due(x) \in Nat /\ enrolled[x] \in Nat
  BY DueIsNat, <1>3
<1>7. count[r] + Due(s) <= enrolled[s]
  BY <1>0, <1>1 DEF ChargesCovered, CountsCovered
<1>8. UsesCovered'
  <2>1. token'[s].used = count[r] + 1
    BY <1>1, <1>2, <1>3 DEF Consumed, TokenDoc
  <2>2. token'[s].used + Due(s)' <= enrolled[s]
    BY <1>1, <1>3, <1>4, <1>6, <1>7, <2>1
  <2>3. \A x \in Tokens : x # s => token'[x] = token[x]
    BY <1>2, <1>3
  <2>. SUFFICES ASSUME NEW x \in Tokens, token'[x] # None
                PROVE  token'[x].used + Due(x)' <= enrolled[x]
    BY <1>2 DEF UsesCovered
  <2>4. CASE x # s
    BY <1>5, <2>3, <2>4 DEF UsesCovered, ChargesCovered
  <2>. QED
    BY <2>2, <2>4
<1>9. CountsCovered'
  <2>. SUFFICES ASSUME NEW q \in Reqs, pc'[q] = "consume"
                PROVE  (count[q] + Due(tok[q]) <= enrolled[tok[q]])'
    BY DEF CountsCovered
  <2>1. q # r
    BY <1>2
  <2>2. pc[q] = "consume" /\ tok[q] \in Tokens /\ count[q] \in Nat
    BY <1>2, <2>1 DEF IInv, KindAtStage, TypeOK
  <2>3. count[q] + Due(tok[q]) <= enrolled[tok[q]]
    BY <2>2 DEF ChargesCovered, CountsCovered
  <2>4. PICK x \in Tokens : x = tok[q]
    BY <2>2
  <2>5. (count[q] + Due(tok[q]))' = count[q] + Due(x)'
    BY <1>2, <2>1, <2>4
  <2>6. CASE x = s
    <3>1. count[q] + Due(s) <= enrolled[s]
      BY <2>3, <2>4, <2>6
    <3>2. count[q] + Due(s)' <= enrolled[s]
      BY <1>1, <1>4, <1>6, <2>2, <3>1
    <3>3. tok'[q] = s
      BY <1>2, <2>1, <2>4, <2>6
    <3>. QED
      BY <1>2, <2>5, <2>6, <3>2, <3>3
  <2>7. CASE x # s
    BY <1>2, <1>5, <2>1, <2>3, <2>4, <2>5, <2>7
  <2>. QED
    BY <2>6, <2>7
<1>. QED
  BY <1>8, <1>9 DEF ChargesCovered

\* Every action keeps the charges covered.
LEMMA ChargesStep ==
    ASSUME IInv, ChargesCovered, [Next]_vars
    PROVE  ChargesCovered'
<1>. USE DEF IInv, TypeOK, KindAtStage, ChargeStages, Step, Finish, Start, Idle,
             stores, local, vars
<1>1. ASSUME NEW r \in Reqs, NEW t \in Tokens, NEW d \in Devices,
             VerifyToken(r, t, d)
      PROVE  ChargesCovered'
  BY <1>1, ChargesKept DEF VerifyToken
<1>2. ASSUME NEW r \in Reqs, LookUpFingerprint(r) PROVE  ChargesCovered'
  BY <1>2, ChargesKept DEF LookUpFingerprint
<1>3. ASSUME NEW r \in Reqs, RefuseKnownDevice(r) PROVE  ChargesCovered'
  BY <1>3, ChargesKept DEF RefuseKnownDevice
<1>4. ASSUME NEW r \in Reqs, RegisterDevice(r) PROVE  ChargesCovered'
  BY <1>4, ChargesKept DEF RegisterDevice
<1>5. ASSUME NEW r \in Reqs, FindPendingDevice(r) PROVE  ChargesCovered'
  BY <1>5, ChargesKept DEF FindPendingDevice
<1>6. ASSUME NEW r \in Reqs, ApproveDevice(r) PROVE  ChargesCovered'
  BY <1>6, ChargesKept DEF ApproveDevice
<1>7. ASSUME NEW r \in Reqs, FindToken(r) PROVE  ChargesCovered'
  <2>1. \A x : Due(x)' = Due(x)
    BY <1>7 DEF FindToken, Due, Uncharged, ChargeStages
  <2>2. tok[r] \in Tokens /\ token[tok[r]] # None
    BY <1>7 DEF FindToken
  <2>3. token[tok[r]].used + Due(tok[r]) <= enrolled[tok[r]]
    BY <2>2 DEF ChargesCovered, UsesCovered
  <2>4. UsesCovered'
    BY <1>7, <2>1 DEF FindToken, ChargesCovered, UsesCovered
  <2>5. CountsCovered'
    BY <1>7, <2>1, <2>3 DEF FindToken, ChargesCovered, CountsCovered
  <2>. QED
    BY <2>4, <2>5 DEF ChargesCovered
<1>8. ASSUME NEW r \in Reqs, ConsumeToken(r) PROVE  ChargesCovered'
  BY <1>8, ConsumeCovered
<1>9. ASSUME NEW r \in Reqs, NEW d \in Devices, GenerateCertificate(r, d)
      PROVE  ChargesCovered'
  BY <1>9, ChargesKept DEF GenerateCertificate
<1>10. ASSUME NEW r \in Reqs, SignCsr(r) PROVE  ChargesCovered'
  BY <1>10, ChargesKept DEF SignCsr
<1>11. ASSUME NEW r \in Reqs, StoreCertificate(r) PROVE  ChargesCovered'
  <2>1. CASE kind[r] # "enroll"
    BY <1>11, <2>1, ChargesKept DEF StoreCertificate
  <2>2. CASE kind[r] = "enroll"
    BY <1>11, <2>2, StoreCovered
  <2>. QED
    BY <2>1, <2>2
<1>12. ASSUME NEW r \in Reqs, BindCertificate(r) PROVE  ChargesCovered'
  BY <1>12, ChargesKept DEF BindCertificate
<1>13. ASSUME NEW r \in Reqs, NEW c \in Serials, VerifyCertificate(r, c)
       PROVE  ChargesCovered'
  BY <1>13, ChargesKept DEF VerifyCertificate
<1>14. ASSUME NEW r \in Reqs, NEW c \in Serials, StartRevoke(r, c)
       PROVE  ChargesCovered'
  BY <1>14, ChargesKept DEF StartRevoke
<1>15. ASSUME NEW r \in Reqs, CheckRevocationTable(r) PROVE  ChargesCovered'
  BY <1>15, ChargesKept DEF CheckRevocationTable
<1>16. ASSUME NEW r \in Reqs, CheckDeviceTrust(r) PROVE  ChargesCovered'
  BY <1>16, ChargesKept DEF CheckDeviceTrust
<1>17. ASSUME NEW r \in Reqs, FindCertificate(r) PROVE  ChargesCovered'
  BY <1>17, ChargesKept DEF FindCertificate
<1>18. ASSUME NEW r \in Reqs, RevokeInVault(r) PROVE  ChargesCovered'
  BY <1>18, ChargesKept DEF RevokeInVault
<1>19. ASSUME NEW r \in Reqs, SaveRevoked(r) PROVE  ChargesCovered'
  BY <1>19, ChargesKept DEF SaveRevoked
<1>20. ASSUME NEW r \in Reqs, RecordRevocation(r) PROVE  ChargesCovered'
  BY <1>20, ChargesKept DEF RecordRevocation
<1>21. ASSUME NEW r \in Reqs, NEW d \in Devices, FindDevice(r, d)
       PROVE  ChargesCovered'
  BY <1>21, ChargesKept DEF FindDevice
<1>22. ASSUME NEW r \in Reqs, NEW s \in AdminStatuses, SaveStatus(r, s)
       PROVE  ChargesCovered'
  BY <1>22, ChargesKept DEF SaveStatus
<1>23. ASSUME NEW r \in Reqs, Abort(r) PROVE  ChargesCovered'
  BY <1>23, ChargesKept DEF Abort
<1>24. ASSUME NEW t \in Tokens, NEW m \in Budgets,
             CreateEnrollmentToken(t, m)
       PROVE  ChargesCovered'
  <2>1. \A x : Due(x)' = Due(x)
    BY <1>24 DEF CreateEnrollmentToken, Due, Uncharged, ChargeStages
  <2>2. token'[t].used = 0
    BY <1>24 DEF CreateEnrollmentToken
  <2>3. Due(t) = 0
    <3>1. Uncharged(t) = {}
      BY <1>24 DEF CreateEnrollmentToken, Uncharged, ChargeStages
    <3>. QED
      BY <3>1, FS_EmptySet DEF Due
  <2>4. UsesCovered'
    BY <1>24, <2>1, <2>2, <2>3 DEF CreateEnrollmentToken, ChargesCovered, UsesCovered
  <2>5. CountsCovered'
    BY <1>24, <2>1 DEF CreateEnrollmentToken, ChargesCovered, CountsCovered
  <2>. QED
    BY <2>4, <2>5 DEF ChargesCovered
<1>25. ASSUME NEW x \in Tokens \union Serials, Lapse(x)
       PROVE  ChargesCovered'
  BY <1>25, ChargesKept DEF Lapse
<1>26. ASSUME NEW r \in Reqs, NEW d \in Devices, StartRegistration(r, d)
       PROVE  ChargesCovered'
  BY <1>26, ChargesKept DEF StartRegistration
<1>27. CASE UNCHANGED vars
  BY <1>27, ChargesKept DEF vars
<1>. QED
  BY <1>1, <1>2, <1>3, <1>4, <1>5, <1>6, <1>7, <1>8, <1>9, <1>10, <1>11,
     <1>12, <1>13, <1>14, <1>15, <1>16, <1>17, <1>18, <1>19, <1>20, <1>21,
     <1>22, <1>23, <1>24, <1>25, <1>26, <1>27
  DEF Next, EnrollDevice, SignAndStore, RenewOrRevoke, UpdateStatus

\* No interleaving and no failure of enrollments charges a token for a device
\* that got no certificate.
THEOREM NoDeviceOvercharged == Spec => []NeverOvercharged
<1>1. Init => ChargesCovered
  BY DEF Init, ChargesCovered, UsesCovered, CountsCovered
<1>2. IInv /\ ChargesCovered /\ [Next]_vars => ChargesCovered'
  BY ChargesStep
<1>3. IInv /\ ChargesCovered => NeverOvercharged
  <2>. SUFFICES ASSUME IInv, ChargesCovered, NEW t \in Tokens, token[t] # None
                PROVE  token[t].used <= enrolled[t]
    BY DEF NeverOvercharged
  <2>1. token[t].used \in Nat /\ enrolled[t] \in Nat
    BY DEF IInv, TypeOK, TokenDoc
  <2>2. token[t].used + Due(t) <= enrolled[t]
    BY DEF ChargesCovered, UsesCovered
  <2>. QED
    BY <2>1, <2>2, DueIsNat
<1>. QED
  BY <1>1, <1>2, <1>3, InvariantHolds, PTL DEF Spec
=============================================================================
