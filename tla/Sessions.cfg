\* An administrator and one more user, two calls of one page, two requests
\* to /users/{id} .
SPECIFICATION Spec
CONSTANTS
  root = root  q1 = q1  q2 = q2  c1 = c1  c2 = c2  None = None
  Users = {root, other}
  other = other
  Root = root
  Requests = {q1, q2}
  Profiles = {"p"}
  Passwords = {"p"}
  MaxAdmitted = 2
  Calls = {c1, c2}
  MaxTokens = 3
SYMMETRY Symmetry
CONSTRAINT FewMishaps
INVARIANTS TypeOK NothingUndone RefusedExplained 
CHECK_DEADLOCK FALSE
