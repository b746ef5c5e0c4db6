----------------------------- MODULE MCCBinding -----------------------------
(***************************************************************************)
(* An instance of CBinding for TLC.                                        *)
(***************************************************************************)
EXTENDS CBinding

\* "x" stands for a printable character, "^" for a control character or a byte from 0x7F on.
Characters == {"/", ".", "x", "^"}
ControlCharacters == {"^"}
ReservedName == <<"x", "x">>

MCUrls ==
    {<<"zk", "://", "host">>, <<"consul", "://", "host">>, <<"etcd", "://", "host", "://", "x">>,
     <<"redis", "://", "host">>, <<"://", "host">>, <<"host">>}

MCPrefixes == {<<>>, <<"/", "x">>, <<"/">>}

MCKeys == {<<"/", "x">>, <<"/", "x", "/", "x">>, <<>>, <<"x">>}

=============================================================================
