---------------------------- MODULE MCJks2Secret ----------------------------
(***************************************************************************)
(* Keystores as keytool, openssl and the controller make them.             *)
(***************************************************************************)
EXTENDS Jks2Secret, MCCertBundle

CONSTANT k2

Blocks(ders) == Lines(ders).blocks
KeyEntry(key, ders) == [key |-> Blocks(<<key>>)[1], certs |-> Blocks(ders)]
JKS(keys, ders)     == [format |-> "JKS", keys |-> keys, trusted |-> Blocks(ders)]
P12(keys, ders)     == [format |-> "PKCS#12", keys |-> keys, trusted |-> Blocks(ders)]

SitePath == KeyEntry(k, <<site, inter>>)

MCKeystore ==
    {JKS(<<SitePath>>, <<>>), JKS(<<SitePath>>, <<root, own>>),
     JKS(<<SitePath, KeyEntry(k2, <<own>>)>>, <<>>),
     JKS(<<KeyEntry(k, <<>>)>>, <<root>>), JKS(<<SitePath>>, <<bad>>),
     JKS(<<SitePath>>, <<site>>), JKS(<<>>, <<root, inter>>), JKS(<<>>, <<>>),
     P12(<<KeyEntry(k, <<site, inter, site, root>>)>>, <<>>),
     P12(<<KeyEntry(k2, <<own, own>>)>>, <<>>), P12(<<>>, <<inter, root>>)}

MCTruststore ==
    {JKS(<<>>, <<root>>), JKS(<<>>, <<inter, own>>), JKS(<<>>, <<site>>),
     JKS(<<SitePath>>, <<root>>), P12(<<>>, <<root, root>>)}

=============================================================================
