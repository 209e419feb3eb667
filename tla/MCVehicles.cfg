CONSTANTS
  Requests = {r1, r2, r3}
  car = car
  van = van
  vin1 = vin1
  vin2 = vin2
  Ids = {car, van}
  Vins = {vin1, vin2}
  Ops <- MCOps
  DB_POOL_MAX_SIZE = 2
  Nobody = Nobody
  Nothing = Nothing
SYMMETRY Symmetry
SPECIFICATION Spec
INVARIANTS
  TypeOK
  CheckIsFresh
PROPERTIES
  AnswersAreTrue
  ImplementsLifecycle
