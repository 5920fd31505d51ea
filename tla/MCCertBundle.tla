---------------------------- MODULE MCCertBundle ----------------------------
(***************************************************************************)
(* A leaf under an intermediate under a root that is known, and a self-     *)
(* signed certificate; the files of a Tencent ZIP with every server type.   *)
(***************************************************************************)
EXTENDS CertBundle, TLC

CONSTANTS site, inter, root, own, bad, k

MCSigner == site :> inter @@ inter :> root @@ root :> root @@ own :> own

\* Blocks with newlines between them, and mashed together.
Lines(ders)  == Encode([i \in DOMAIN ders |-> [der |-> ders[i], glued |-> FALSE]])
Mashed(ders) == [blocks |-> [i \in DOMAIN ders |-> [der |-> ders[i], glued |-> i > 1]],
                 open |-> TRUE]
Unended(t)   == [t EXCEPT !.open = TRUE]

Named(words, t) == [name |-> words, text |-> t]

KeyFile   == Named({"key"}, Lines(<<k>>))
\* domain.keystore, domain.pfx
Binaries  == {Named({"key", "binary"}, Unended(Lines(<<Binary>>))),
              Named({"binary"}, Unended(Lines(<<Binary>>)))}

\* domain.crt, domain_bundle.crt, one with a malformed block, a self-signed certificate.
LeafFiles  == {Named({}, Unended(Lines(<<site>>))), Named({}, Mashed(<<site, inter>>)),
               Named({}, Lines(<<site, bad>>)),
               Named({}, Lines(<<own>>))}
\* chain.crt, one with its root, one that does not parse.
ChainFiles == {Named({"chain"}, Unended(Lines(<<inter>>))),
               Named({"chain"}, Mashed(<<inter, root>>)),
               Named({"chain"}, Lines(<<bad>>))}
\* 1_root_bundle.crt
RootBundle == Named({}, Unended(Lines(<<inter>>)))

ZipFiles == {KeyFile} \cup Binaries \cup LeafFiles \cup ChainFiles
AllFiles == ZipFiles \cup {RootBundle}

\* NoFalseAlarm is about these files.
ASSUME ChainsBeginAtInter == OrderlyFiles(inter)

AcmBlobs == {Lines(<<site, inter, k>>), Lines(<<site, site, inter, root, k>>),
             Lines(<<site, root>>), Lines(<<k>>), Lines(<<site, bad>>)}

JsonFields == {Lines(<<site>>), Mashed(<<site, inter>>), Mashed(<<inter, inter>>),
               Lines(<<inter, root>>), Lines(<<bad>>), Unended(Lines(<<own>>))}

=============================================================================
