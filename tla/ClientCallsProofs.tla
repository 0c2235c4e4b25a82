------------------------- MODULE ClientCallsProofs -------------------------
(* Proofs about ClientCalls: every behaviour of the whole is one of each part, *)
(* so what is proved of the parts holds of it.                                 *)
EXTENDS ClientCalls, VaultProofs, ClientProofs, CodecProofs

\* A step of the whole is one of a part, or leaves the part as it is.
LEMMA PartSteps ==
    ASSUME [ClientNext]_allVars
    PROVE  /\ [Next]_vars /\ [KeysNext]_keyVars /\ [SendNext]_sendVars /\ [LoadNext]_loadVars
           /\ [FacadeNext]_facadeVars /\ [MailNext]_mailVars /\ [JarNext]_jarVars
           /\ [DateNext]_dateVars /\ [FramesNext]_frameVars
<1>1. CASE UNCHANGED allVars
  BY <1>1 DEF allVars
<1>2. CASE Only("secrets") /\ Next
  BY <1>2 DEF Only, mailVars
<1>3. CASE Only("keys") /\ KeysNext
  BY <1>3 DEF Only, mailVars
<1>4. CASE Only("send") /\ SendNext
  BY <1>4 DEF Only, mailVars
<1>5. CASE Only("load") /\ LoadNext
  BY <1>5 DEF Only, mailVars
<1>6. CASE Only("identity") /\ FacadeNext
  BY <1>6 DEF Only, mailVars
<1>7. CASE Only("list") /\ ListStep
  BY <1>7 DEF Only, MailNext
<1>8. CASE Only("wait") /\ WaitStep
  BY <1>8 DEF Only, MailNext
<1>9. CASE Only("cookies") /\ JarNext
  BY <1>9 DEF Only, mailVars
<1>10. CASE Only("dates") /\ DateNext
  BY <1>10 DEF Only, mailVars
<1>11. CASE Only("frames") /\ FramesNext
  BY <1>11 DEF Only, mailVars
<1>12. QED
  BY <1>1, <1>2, <1>3, <1>4, <1>5, <1>6, <1>7, <1>8, <1>9, <1>10, <1>11 DEF ClientNext

\* A behaviour of the client is one of every part of it: the parts share nothing.
THEOREM ClientRefinesParts ==
    ClientSpec => /\ Spec /\ KeysSpec /\ SendSpec /\ LoadSpec /\ FacadeSpec /\ MailSpec /\ JarSpec
                  /\ DateSpec /\ FramesSpec
<1>1. ClientInit => /\ Init /\ KeysInit /\ SendInit /\ LoadInit /\ FacadeInit /\ MailInit
                    /\ JarInit /\ DateInit /\ FramesInit
  BY DEF ClientInit
<1>2. [ClientNext]_allVars =>
         /\ [Next]_vars /\ [KeysNext]_keyVars /\ [SendNext]_sendVars /\ [LoadNext]_loadVars
         /\ [FacadeNext]_facadeVars /\ [MailNext]_mailVars /\ [JarNext]_jarVars
         /\ [DateNext]_dateVars /\ [FramesNext]_frameVars
  BY PartSteps
<1>3. QED
  BY <1>1, <1>2, PTL DEF ClientSpec, Spec, KeysSpec, SendSpec, LoadSpec, FacadeSpec, MailSpec,
                         JarSpec, DateSpec, FramesSpec

\* All parts keep to their types, for every value of the constants.
THEOREM ClientTypesHold == ClientSpec => []ClientTypeOK
<1>1. ClientSpec => [](/\ TypeOK /\ KeysTypeOK /\ SendTypeOK /\ LoadTypeOK /\ FacadeTypeOK
                       /\ MailTypeOK /\ JarTypeOK /\ FramesTypeOK)
  BY ClientRefinesParts, SecretTypesHold, KeyTypesHold, SendTypesHold, LoadTypesHold,
     FacadeTypesHold, MailTypesHold, JarTypesHold, FramesTypes, PTL
<1>2. TypeOK /\ KeysTypeOK /\ SendTypeOK /\ LoadTypeOK /\ FacadeTypeOK /\ MailTypeOK
         /\ JarTypeOK /\ FramesTypeOK => ClientTypeOK
  BY DEF ClientTypeOK
<1>3. QED
  BY <1>1, <1>2, PTL

\* The dates of cookies are the days that counting gives.
THEOREM ClientDatesHold == ClientSpec => []DatesHold
<1>1. DatesAreDays => DatesHold
  BY DEF DatesHold
<1>2. QED
  BY <1>1, ClientRefinesParts, EveryDayIsCounted, PTL

\* What the runs check of the parts holds of the client, for every value of the constants.
THEOREM ClientPartsHold ==
    ClientSpec => /\ [](/\ OwnWritesVisible /\ EveryKeyOpens /\ UnwrapsUnlessDisturbed
                        /\ SentExactly /\ LoadedWhole /\ GuardsKnowOwnChanges /\ ListedWhole
                        /\ WaitBounded /\ CarriesLastSet /\ DecodesWhatArrived)
                  /\ TotpKeepsLogin /\ SnapshotIsRecent
<1>1. Spec => []OwnWritesVisible /\ TotpKeepsLogin /\ SnapshotIsRecent
  BY OwnWritesSeen, TotpChangeKeepsLogin, SnapshotRecent
<1>2. KeysSpec => []EveryKeyOpens /\ []UnwrapsUnlessDisturbed
  BY VaultKeysOpen, UnwrapFindsKey
<1>3. QED
  BY <1>1, <1>2, ClientRefinesParts, SendsExactly, LoadsWhole, FacadeKnows, ListsAll,
     WaitEndsInTime, CarriesLast, FramesArriveWhole, PTL
=============================================================================
