---------------------------- MODULE MCWebServer ----------------------------
(* One caller over its limit of two, one user whose role is set, replaced  *)
(* and deleted, each with every kind of body, and readers of the roles of  *)
(* that user and of one whose user_id is a number.                         *)
EXTENDS WebServerProperties

Enrollment(n, body) == [kind |-> "enroll", subject |-> "caller", body |-> body, n |-> n]
Post(role, body) == [kind |-> "post", subject |-> "user", body |-> body, role |-> role]
PostNumber(role) == [kind |-> "post", subject |-> "number", body |-> "valid", role |-> role]
Delete(n) == [kind |-> "delete", subject |-> "user", body |-> "none", n |-> n]
Read(n, body) == [kind |-> "get", subject |-> "reader", body |-> body, n |-> n]

MCRoles == {"farmer", "agronomist"}

MCBatches ==
  {<<Enrollment(1, "valid"), Enrollment(2, "wrong_zone"), Enrollment(3, "incomplete"),
     Enrollment(4, "not_object"), Enrollment(5, "valid")>>,
   <<Post("farmer", "valid"), Post("agronomist", "valid"), Delete(1), Delete(2)>>,
   <<Delete(1), Post("farmer", "valid"), Delete(2), Post("agronomist", "valid")>>,
   <<Read(1, "known"), Post("", "incomplete"), Post("farmer", "valid"),
     Post("", "not_object"), Read(2, "unknown"), Post("", "unhashable"), Read(3, "malformed")>>,
   <<PostNumber("farmer"), Read(1, "roles"), Post("agronomist", "valid"), Read(2, "roles"),
     Delete(1), Read(3, "roles")>>}
=============================================================================
