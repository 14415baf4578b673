---------------------------- MODULE MCNativeConfig ----------------------------
(* One surface with a generated permission list and a generated scalar, and  *)
(* a second surface with a list that plans only patch.  Tools add entries    *)
(* and set values; the sources change between four plans.                    *)
EXTENDS NativeConfig

CONSTANTS settings, config, allow, mode, plugins, g1, g2, e, t, v1, v2, w

MCSurfaceOf == [p \in {allow, mode, plugins} |-> IF p = plugins THEN config ELSE settings]

Source(gen, extend, set, delete) ==
  [gen |-> gen, extend |-> extend, set |-> set, delete |-> delete]
Empty == [p \in {} |-> Missing]
GenBoth(l, v) == [p \in {allow, mode} |-> IF p = allow THEN l ELSE v]
Gen(l) == [p \in {allow} |-> l]
On(p, v) == [x \in {p} |-> v]

MCSources ==
  {Source(GenBoth(<<g1, g2>>, v1), On(allow, <<e>>), Empty, {}),
   Source(GenBoth(<<g2>>, v2), On(plugins, <<g1>>), Empty, {}),
   Source(Gen(<<g1>>), On(allow, <<e>>), On(mode, v1), {}),
   Source(Empty, Empty, Empty, {plugins})}
=============================================================================
