CONSTANTS
  Requests = {r1, r2, r3}
  car = car
  van = van
  vin1 = vin1
  vin2 = vin2
  Ids = {car}
  Vins = {vin1}
  Ops <- QueueOps
  DB_POOL_MAX_SIZE = 2
  Nobody = Nobody
  Nothing = Nothing
SPECIFICATION Spec
PROPERTIES
  EveryRequestAnswered
