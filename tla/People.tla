------------------------------- MODULE People -------------------------------
(***************************************************************************)
(* Whom the loans and the aid requests are about, and who works on them.   *)
(* A person's status is written by the pages of the persons and read by    *)
(* the creation of a loan or of an aid request.                            *)
(***************************************************************************)

CONSTANTS
    Persons,        \* the beneficiaries
    Users,          \* the staff accounts that may create and edit records
    Reviewers,      \* the users the review routes admit (Admin, Super Admin)
    Nobody          \* an absent person, user, row or set of terms

ASSUME PeopleAssumption ==
    /\ Reviewers \subseteq Users
    /\ Nobody \notin Persons \cup Users

VARIABLE
    personActive    \* the persons whose status is Active

\* PersonService.UpdatePersonStatus: a person is deactivated or reactivated.
SetPersonStatus(p) ==
    personActive' = IF p \in personActive THEN personActive \ {p}
                                          ELSE personActive \cup {p}
=============================================================================
