CONSTANTS
  q1 = q1  q2 = q2  q3 = q3
  Queries = {q3}
  DestOf <- TwoToOne
  Limit = 1
SPECIFICATION Spec
INVARIANTS
  RelaysStayProxied
