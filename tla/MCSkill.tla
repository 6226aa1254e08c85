------------------------------ MODULE MCSkill -------------------------------
(* Model values for the small instances of Skill.                          *)
EXTENDS Skill, TLC

CONSTANTS t1, t2, k1, k2

\* Threads and session keys are interchangeable.
SkillSymmetry == Permutations(Threads) \cup Permutations(SessionKeys)
=============================================================================
