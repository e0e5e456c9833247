------------------------------ MODULE MCMerger ------------------------------
(* Two versions of a package, with a protected file, a directory that may  *)
(* be reached through a symlink, and a name that is a file or a symlink.   *)
EXTENDS Merger

MCPathSeq == << <<"etc">>, <<"etc", "._cfg0000_conf">>, <<"etc", "._cfg0001_conf">>, <<"etc", "conf">>,
                <<"lib">>, <<"lib", "f">>, <<"lib64">>, <<"lib64", "f">>, <<"s">> >>
Conf == <<"etc", "conf">>
MCProtected == {Conf}
MCUpdateNames == [p \in MCProtected |-> << <<"etc", "._cfg0000_conf">>, <<"etc", "._cfg0001_conf">> >>]

MCUserContent == <<"user">>

AFile(content) == [type |-> "file", content |-> content]
ASym(target) == [type |-> "sym", content |-> target]
ADir == [type |-> "dir", content |-> <<>>]

Root(files) == [p \in Range(MCPathSeq) |-> IF p \in DOMAIN files THEN files[p] ELSE Nothing]
Setting(start, old, new, skip, volatile) ==
    [root : {Root(start)}, image : {<<old, new>>},
     rename : BOOLEAN, preserveMtimes : BOOLEAN, dirOverSymDirIsError : BOOLEAN,
     skip : skip, volatile : volatile]

\* a configuration file, of which each version has another
Configuration ==
    Setting(<< "etc" >> :> Dir,
            (<<"etc">> :> ADir @@ Conf :> AFile(<<"a">>)),
            (<<"etc">> :> ADir @@ Conf :> AFile(<<"b">>)),
            {{}}, {{}})

\* the same file, by two names
Alias ==
    Setting((<<"lib64">> :> Dir @@ <<"lib">> :> Sym(<<"lib64">>, 0)),
            (<<"lib64">> :> ADir @@ <<"lib64", "f">> :> AFile(<<"a">>)),
            (<<"lib">> :> ADir @@ <<"lib", "f">> :> AFile(<<"a">>)),
            {{}}, {{}})

\* a long file that becomes a short one, and a file that becomes a symlink
Changed ==
    Setting(<< "etc" >> :> Dir,
            (<<"lib">> :> ADir @@ <<"lib", "f">> :> AFile(<<"a", "a">>) @@ <<"s">> :> AFile(<<"a">>)),
            (<<"lib">> :> ADir @@ <<"lib", "f">> :> AFile(<<"b">>) @@ <<"s">> :> ASym(<<"lib", "f">>)),
            {{}, {<<"lib">>}, {<<"lib", "f">>}}, {{}, {<<"s">>}})

MCSettings ==
    {s \in Configuration : s.preserveMtimes /\ s.dirOverSymDirIsError}
    \cup {s \in Alias : s.rename \/ (s.dirOverSymDirIsError => s.preserveMtimes)}
    \cup {s \in Changed :
              /\ s.dirOverSymDirIsError /\ s.preserveMtimes
              /\ s.skip # {} => s.volatile = {} /\ (s.rename <=> s.skip = {<<"lib", "f">>})
              /\ s.volatile # {} => s.rename}
==============================================================================
