------------------------------ MODULE GreynetUrl ------------------------------
(***************************************************************************)
(* The urls of results, greynet://<name>;<sid>: as handle_queryresult      *)
(* composes them and as ss_greynet::factory takes them apart.  A text is a *)
(* sequence of characters; which characters they are matters for ";" only. *)
(***************************************************************************)
EXTENDS Naturals, Sequences

Separator == ";"

\* "greynet://"
Scheme == <<"g", "r", "e", "y", "n", "e", "t", ":", "/", "/">>

greynet_url(name, id) == Scheme \o name \o <<Separator>> \o id

\* The first character after the scheme, in positions that start from 1.
offset == 11

\* url.find(";", offset).
Separators(url) == {i \in offset..Len(url) : url[i] = Separator}

offset2(url) == CHOOSE i \in Separators(url) : \A k \in Separators(url) : i <= k

username_TakesSeparator(url) == SubSeq(url, offset, offset2(url))

username(url) == SubSeq(url, offset, offset2(url) - 1)

sid(url) == SubSeq(url, offset2(url) + 1, Len(url))

=============================================================================
