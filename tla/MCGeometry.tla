----------------------------- MODULE MCGeometry -----------------------------
(* Small instances of GeometrySync for TLC. *)
EXTENDS GeometrySync

\* The bits of the 32-bit floats 0.0 and 1.0; an index is its own bits.
One == 1065353216
Origin == <<0, 0, 0>>
Right == <<One, 0, 0>>
Up == <<0, One, 0>>

Part(form, points) == [form |-> form, points |-> points]
Mesh(points, triangles) == [type |-> "MESH", parts |-> <<Part("mesh", points)>>, triangles |-> triangles]
Blends(type, parts) == [type |-> type, parts |-> parts, triangles |-> <<>>]

Triangle == Mesh(<<Origin, Right, Up>>, <<<<0, 1, 2>>>>)
Broken == Mesh(<<Origin, Right>>, <<<<0, 1, 2>>>>)
\* Two points, and one with a triangle of its own, have the same bytes.
TwoPoints == Mesh(<<Origin, Origin>>, <<>>)
OnePoint == Mesh(<<Origin>>, <<Origin>>)
Shifted == Mesh(<<Origin, Right>>, <<>>)
Curve == Blends("CURVE", <<Part("bezier", <<Up>>), Part("poly", <<Right \o <<One>>, Up \o <<0>>>>)>>)
Drawing == Blends("GREASEPENCIL", <<Part("position", <<Up, Right>>), Part("bare", <<>>), Part("position", <<Origin>>)>>)
Light == Blends("LIGHT", <<>>)

MCObjects == {Triangle, Broken, TwoPoints, OnePoint, Shifted, Curve, Drawing, Light}
=============================================================================
