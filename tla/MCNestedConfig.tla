---------------------------- MODULE MCNestedConfig ----------------------------
(* One server s with a scalar field and a table, registered and disabled,    *)
(* under eight configurations; a tool writes inside and beside its entry.    *)
EXTENDS NestedConfig

CONSTANTS servers, s, url, env, hdr, own, args, A, B, u1, u2, a, b, h, w, i, j

SP == <<servers, s>>
At(key) == SP \o <<key>>

Mapping(f) == [r \in {<< >>} \cup {<<k>> : k \in DOMAIN f} |-> IF r = << >> THEN Table ELSE f[r[1]]]
One(k, v) == Mapping(k :> v)
Op(kind, p, value) == [kind |-> kind, pointer |-> p, value |-> value]

Full(x) == (url :> Leaf(x)) @@ (env :> One(A, a))
Server(enabled, fields) == (s :> [enabled |-> enabled, fields |-> fields])
Source(srv, committed, local) == [servers |-> srv, committed |-> committed, local |-> local]

Header == Op("set", At(hdr), Leaf(h))
Overlay == Op("overlay", At(env), One(B, b))

MCSources ==
  {Source(Server(TRUE, Full(u1)), <<Header, Overlay>>, << >>),
   Source(Server(FALSE, Full(u1)), <<Header, Overlay>>, <<Op("extend", At(args), Leaf(<<i>>))>>),
   Source(Server(TRUE, url :> Leaf(u2)), <<Op("set", <<own>>, Leaf(w))>>, <<Op("delete", <<own>>, Empty)>>),
   Source(Server(TRUE, url :> Leaf(u2)), <<Op("overlay", At(env), One(A, w))>>, << >>),
   Source(Server(TRUE, url :> Leaf(u2)), <<Op("replace", At(env), One(B, b))>>, <<Op("extend", At(args), Leaf(<<j, i>>))>>),
   Source(<< >>, <<Op("overlay", SP \o <<env>>, One(A, w))>>, << >>),
   Source(<< >>, <<Header>>, <<Op("replace", SP, One(env, a))>>),
   Source(<< >>, << >>, << >>)}

MCToolNodes == {<<<<servers>>, w>>, <<<<servers>>, Table>>, <<SP, Table>>, <<At(env) \o <<B>>, w>>,
                <<At(args), <<i>>>>, <<<<own>>, w>>}
MCNames == {servers, s, url, env, hdr, own, args, A, B}
MCListLeaves == {<< >>, <<i>>, <<j>>, <<i, j>>, <<j, i>>}
MCLeaves == {u1, u2, a, b, h, w} \cup MCListLeaves
=============================================================================
