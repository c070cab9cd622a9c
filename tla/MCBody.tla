------------------------------- MODULE MCBody --------------------------------
(* A face over one closed edge with two coedges not linked yet, and the    *)
(* empty body.                                                               *)
EXTENDS Body

Geometry == NewVertex(AddSurface(AddCurve(EmptyBody)), 1)
Face1 == AddOuterLoop(NewLoop(NewFace(NewEdge(Geometry, 1, 1, 1, TRUE), 1), 1), 1, 1)
Sheet == NewCoedge(NewCoedge(Face1, 1, 1, TRUE), 1, 1, FALSE)
MCStarts == {EmptyBody, Sheet}
==============================================================================
