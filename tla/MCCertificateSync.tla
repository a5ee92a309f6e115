-------------------------- MODULE MCCertificateSync --------------------------
(* Small instances of CertificateSync. *)
EXTENDS CertificateSync

CONSTANTS s1, s2, d1, d2, e1

(* The certificate that the operator put there. *)
UserFile == [source |-> None, version |-> 0]

FileOrNone == {UserFile, None}
UserFileOnly == {UserFile}
=============================================================================
