----------------------------- MODULE MCDocument -----------------------------
(* Small documents.  Sessions 100, 200 and 300 are farther apart than their
   claims can reach, as random session IDs are; 100 and 102 are not.       *)
EXTENDS Document

FarSessions == {100, 200}
ThreeSessions == {100, 200, 300}
CloseSessions == {100, 102}

TwoCapacities == {1, 2}
OneCapacity == {2}

OneFounder == {100}

(* The premises of the theorems about Document, but for the close sessions. *)
ASSUME MCSessionsFarApart == Sessions = CloseSessions \/ SessionsFarApart
ASSUME MCSessionsFit == SessionsFit
ASSUME MCSessionsStable == SessionsStable
=============================================================================
