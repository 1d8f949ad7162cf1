----------------------------- MODULE MCUploadKey -----------------------------
(* A small instance of UploadKey for TLC: upload-key --jump, its two runs j  *)
(* and t, and the two probes of a doctor.                                    *)
EXTENDS UploadKey, TLC

CONSTANTS j, t, p1, p2, bastion, host, k1, k2

TheJump == j :> None @@ t :> bastion @@ p1 :> bastion @@ p2 :> None
TheTarget == j :> bastion @@ t :> host @@ p1 :> host @@ p2 :> bastion
ThePolicy == j :> "accept-new" @@ t :> "accept-new" @@ p1 :> "tofu" @@ p2 :> "strict"
TheHad == bastion :> {k1} @@ host :> {k2}
TheBrought == j :> {k1, k2} @@ t :> {k1}
TheAfter == j :> None @@ t :> j

=============================================================================
