------------------------ MODULE StreamBridgeProofs ------------------------
(***************************************************************************)
(* The client's stream handler loses nothing of a response and shows the   *)
(* local service no early end of the request, for requests and responses   *)
(* of any length.                                                          *)
(***************************************************************************)
EXTENDS StreamBridge, TLAPS

USE BridgeAssumption

\* Nothing has been sent, and no goroutine runs.
LEMMA BridgeInitInv == Init => BridgeInv
  <1> SUFFICES ASSUME Init PROVE BridgeInv
    OBVIOUS
  <1>1. FlagsOK
    BY Zenon DEF Init, FlagsOK
  <1>2. DataOK
    BY DEF Init, DataOK
  <1>3. Flow
    BY DEF Init, Flow, NoTruncation, EofAfterRequest
  <1> QED
    BY <1>1, <1>2, <1>3 DEF BridgeInv, BridgeTypeOK

\* Every step leaves flags flags.
LEMMA FlagsStep == FlagsOK /\ [Next]_vars => FlagsOK'
  <1> SUFFICES ASSUME FlagsOK, [Next]_vars PROVE FlagsOK'
    OBVIOUS
  <1> USE DEF FlagsOK, conf, data, ends
  <1>1. CASE UNCHANGED vars
    BY <1>1, Zenon DEF vars
  <1>2. CASE Dial
    BY <1>2, Zenon DEF Dial
  <1>3. CASE DialFails
    BY <1>3, Zenon DEF DialFails
  <1>4. CASE RewriteHost
    BY <1>4, Zenon DEF RewriteHost
  <1>5. CASE RewriteFails
    BY <1>5, Zenon DEF RewriteFails
  <1>6. CASE CopyUp
    BY <1>6, Zenon DEF CopyUp
  <1>7. CASE UpEnds
    BY <1>7, Zenon DEF UpEnds
  <1>8. CASE CopyDown
    BY <1>8, Zenon DEF CopyDown
  <1>9. CASE DownEnds
    BY <1>9, Zenon DEF DownEnds
  <1>10. CASE Return
    BY <1>10, Zenon DEF Return
  <1>11. CASE ServerSend
    BY <1>11, Zenon DEF ServerSend
  <1>12. CASE ServerCloses
    BY <1>12, Zenon DEF ServerCloses
  <1>13. CASE ServerQuits
    BY <1>13, Zenon DEF ServerQuits
  <1>14. CASE StreamReset
    BY <1>14, Zenon DEF StreamReset
  <1>15. CASE LocalSend
    BY <1>15, Zenon DEF LocalSend
  <1>16. CASE LocalCloses
    BY <1>16, Zenon DEF LocalCloses
  <1>17. CASE LocalFails
    BY <1>17, Zenon DEF LocalFails
  <1> QED
    BY <1>1, <1>2, <1>3, <1>4, <1>5, <1>6, <1>7, <1>8, <1>9, <1>10, <1>11, <1>12, <1>13, <1>14, <1>15, <1>16, <1>17
       DEF Next, HandlerStep

\* Every step of the handler keeps counts and flow.
LEMMA HandlerFlow == BridgeInv /\ HandlerStep => DataOK' /\ Flow'
  <1> SUFFICES ASSUME BridgeInv, HandlerStep PROVE DataOK' /\ Flow'
    OBVIOUS
  <1> USE DEF BridgeInv, BridgeTypeOK, FlagsOK, DataOK, Flow, NoTruncation,
              EofAfterRequest, conf, data, ends
  <1>1. CASE Dial
    BY <1>1 DEF Dial
  <1>2. CASE DialFails
    BY <1>2 DEF DialFails
  <1>3. CASE RewriteHost
    BY <1>3 DEF RewriteHost
  <1>4. CASE RewriteFails
    BY <1>4 DEF RewriteFails
  <1>5. CASE CopyUp
    <2>1. CASE reqGot' = reqGot + 1 /\ UNCHANGED <<up, localEof>>
      BY <1>5, <2>1 DEF CopyUp
    <2>2. CASE localFin /\ up' = FALSE /\ localEof' = TRUE /\ UNCHANGED reqGot
      BY <1>5, <2>2 DEF CopyUp
    <2> QED
      BY <1>5, <2>1, <2>2 DEF CopyUp
  <1>6. CASE UpEnds
    <2>1. CASE reset
      BY <1>6, <2>1 DEF UpEnds
    <2>2. CASE serverFin /\ reqGot = reqSent
      BY <1>6, <2>2 DEF UpEnds
    <2> QED
      BY <1>6, <2>1, <2>2 DEF UpEnds
  <1>7. CASE CopyDown
    <2>1. CASE ~reset /\ respGot' = respGot + 1 /\ UNCHANGED down
      BY <1>7, <2>1 DEF CopyDown
    <2>2. CASE reset /\ down' = FALSE /\ UNCHANGED respGot
      BY <1>7, <2>2 DEF CopyDown
    <2> QED
      BY <1>7, <2>1, <2>2 DEF CopyDown
  <1>8. CASE DownEnds
    BY <1>8 DEF DownEnds
  <1>9. CASE Return
    BY <1>9 DEF Return
  <1> QED
    BY <1>1, <1>2, <1>3, <1>4, <1>5, <1>6, <1>7, <1>8, <1>9 DEF HandlerStep

\* So does every step of the server, the local service and yamux.
LEMMA PeerFlow == BridgeInv /\ [Next]_vars => DataOK' /\ Flow'
  <1> SUFFICES ASSUME BridgeInv, [Next]_vars PROVE DataOK' /\ Flow'
    OBVIOUS
  <1> USE DEF BridgeInv, BridgeTypeOK, FlagsOK, DataOK, Flow, NoTruncation,
              EofAfterRequest, conf, data, ends
  <1>1. CASE UNCHANGED vars
    BY <1>1 DEF vars
  <1>2. CASE HandlerStep
    BY <1>2, HandlerFlow
  <1>3. CASE ServerSend
    BY <1>3 DEF ServerSend
  <1>4. CASE ServerCloses
    BY <1>4 DEF ServerCloses
  <1>5. CASE ServerQuits
    BY <1>5 DEF ServerQuits
  <1>6. CASE StreamReset
    BY <1>6 DEF StreamReset
  <1>7. CASE LocalSend
    BY <1>7 DEF LocalSend, Open
  <1>8. CASE LocalCloses
    BY <1>8 DEF LocalCloses
  <1>9. CASE LocalFails
    BY <1>9 DEF LocalFails
  <1> QED
    BY <1>1, <1>2, <1>3, <1>4, <1>5, <1>6, <1>7, <1>8, <1>9 DEF Next

\* The inductive invariant of the stream handler holds in every state.
THEOREM BridgeInvariance == Spec => []BridgeInv
  <1>1. BridgeInv /\ [Next]_vars => BridgeInv'
    BY FlagsStep, PeerFlow DEF BridgeInv, BridgeTypeOK
  <1> QED
    BY <1>1, BridgeInitInv, PTL DEF Spec

\* bridgeBidirectional waits for both directions, so Handle never closes the
\* connections with a part of the response still to be copied.
THEOREM NoResponseTruncated == Spec => []NoTruncation
  <1>1. BridgeInv => NoTruncation
    BY DEF BridgeInv, Flow
  <1> QED
    BY <1>1, BridgeInvariance, PTL

\* copyHalfClose calls CloseWrite after the copy: the local service sees the
\* end of the request side only behind all of its data.
THEOREM NoEarlyEof == Spec => []EofAfterRequest
  <1>1. BridgeInv => EofAfterRequest
    BY DEF BridgeInv, Flow
  <1> QED
    BY <1>1, BridgeInvariance, PTL
=============================================================================
