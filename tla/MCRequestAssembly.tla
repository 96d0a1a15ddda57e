-------------------------- MODULE MCRequestAssembly --------------------------
(***************************************************************************)
(* RequestAssembly for TLC: the streams.                                   *)
(***************************************************************************)
EXTENDS RequestAssembly

Field(kind, s) == [i \in DOMAIN s |-> [kind |-> kind, byte |-> s[i]]]
Mark(kind) == <<[kind |-> kind, byte |-> ""]>>

Start(method, url) ==
  Field("method", method) \o Field("URL", url) \o Field("version", <<"1", "1">>)
Header(key, value) == Field("key", key) \o Field("value", value) \o Mark("line")

\* Names that are prefixes of each other; the same name twice; an empty value.
Get ==
  Start(<<"G", "E">>, <<"/", "a">>) \o Header(<<"h">>, <<"x", "y">>)
    \o Header(<<"h", "k">>, <<>>) \o Header(<<"h">>, <<"z">>) \o Mark("end")
\* A body in two chunks, and a trailer.
Post ==
  Start(<<"P">>, <<"/">>) \o Header(<<"t", "e">>, <<"c", "h">>)
    \o Field("body", <<"b", "o">>) \o Field("body", <<"d">>)
    \o Header(<<"t">>, <<"v">>) \o Mark("end")
Broken == Start(<<"G">>, <<"/">>) \o Header(<<"h">>, <<"x">>) \o Mark("bad")

MCByte ==
  {"", "1", "G", "E", "P", "O", "H", "T", "/", ",", "a", "b", "c", "d", "e", "h",
   "k", "o", "p", "t", "u", "v", "w", "x", "y", "z"}

MCServerStreams ==
  {Get, Post, Get \o Post, Post \o Get, Get \o Broken, Broken}
\* The chunked request of main.cpp.
MCDemoStreams ==
  {Start(<<"P", "O">>, <<"/", "u", "p">>) \o Header(<<"H", "o">>, <<"e", "x", "a">>)
     \o Header(<<"T", "E">>, <<"c", "h">>) \o Field("body", <<"H", "e">>)
     \o Field("body", <<",", "w">>) \o Field("body", <<"t">>) \o Mark("end")}
=============================================================================
